---- MODULE Spec2Model ----
(***************************************************************************)
(* A model of webrtcvad-go: the fixed-point voice activity detector        *)
(* (resamplers, filterbank, GMM decision and adaptation, hysteresis) and   *)
(* its public operations New, SetMode, IsSpeech, ValidRateAndFrameLength.  *)
(* Integers keep the widths of the Go code: int16 and int32 values wrap.   *)
(***************************************************************************)
EXTENDS Integers, Sequences, FiniteSets, TLC

(***************************************************************************)
(* Fixed-width arithmetic.  Every value stays inside the int32 range, so   *)
(* wrapping sums and products are computed piecewise.                      *)
(***************************************************************************)
MinI32 == (-2147483647) - 1

MaxI32 == 2147483647

\* Go's int16(x): keep the low 16 bits, read as two's complement.
ToI16(x) ==
  LET m == x % 65536 IN IF m >= 32768 THEN m - 65536 ELSE m

\* int32 addition with wrap-around.
AddW32(a, b) ==
  IF a >= 0 /\ b > MaxI32 - a THEN (a + MinI32) + (b + MinI32)
  ELSE IF a < 0 /\ b < MinI32 - a THEN (a - MinI32) + (b - MinI32)
  ELSE a + b

\* int32 negation with wrap-around (-MinI32 = MinI32).
NegW32(a) == IF a = MinI32 THEN MinI32 ELSE -a

\* int32 subtraction with wrap-around.
SubW32(a, b) == AddW32(a, NegW32(b))

\* int32 product a*b with wrap-around, for b in the int16 range.
MulW32(a, b) ==
  IF a >= -65535 /\ a <= 65535 THEN a * b
  ELSE LET al == a % 65536
           ah == (a - al) \div 65536
       IN AddW32(ToI16(ah * b) * 65536, al * b)

\* Go's int32(x) for x = 4*y, y an int32: the shift "<< 2" on 32 bits.
Shl2W32(y) ==
  LET m == y % 1073741824
  IN IF m >= 536870912 THEN (m - 1073741824) * 4 ELSE m * 4

\* Arithmetic right shift of a signed value.
Shr(a, k) == a \div (2 ^ k)

\* Number of significant bits of a positive int32 (bits.Len32).
BitLen(x) ==
  IF x >= 65536
  THEN IF x >= 16777216
       THEN IF x >= 268435456
            THEN IF x >= 1073741824 THEN 31 ELSE IF x >= 536870912 THEN 30 ELSE 29
            ELSE IF x >= 67108864 THEN IF x >= 134217728 THEN 28 ELSE 27
                 ELSE IF x >= 33554432 THEN 26 ELSE 25
       ELSE IF x >= 1048576
            THEN IF x >= 4194304 THEN IF x >= 8388608 THEN 24 ELSE 23
                 ELSE IF x >= 2097152 THEN 22 ELSE 21
            ELSE IF x >= 262144 THEN IF x >= 524288 THEN 20 ELSE 19
                 ELSE IF x >= 131072 THEN 18 ELSE 17
  ELSE IF x >= 256
       THEN IF x >= 4096
            THEN IF x >= 16384 THEN IF x >= 32768 THEN 16 ELSE 15
                 ELSE IF x >= 8192 THEN 14 ELSE 13
            ELSE IF x >= 1024 THEN IF x >= 2048 THEN 12 ELSE 11
                 ELSE IF x >= 512 THEN 10 ELSE 9
       ELSE IF x >= 16
            THEN IF x >= 64 THEN IF x >= 128 THEN 8 ELSE 7
                 ELSE IF x >= 32 THEN 6 ELSE 5
            ELSE IF x >= 4 THEN IF x >= 8 THEN 4 ELSE 3
                 ELSE IF x >= 2 THEN 2 ELSE IF x >= 1 THEN 1 ELSE 0

\* normW32: leading zeros of a, of ^a for negative a (at most 31 then), 0 for 0.
normW32(a) ==
  IF a = 0 THEN 0
  ELSE IF a < 0 THEN (IF a = -1 THEN 31 ELSE 32 - BitLen((-a) - 1))
  ELSE 32 - BitLen(a)

\* normU32 on a value below 2^31: leading zeros, 0 for 0.
normU32(a) == IF a = 0 THEN 0 ELSE 32 - BitLen(a)

\* divW32W16: sign-extracted truncating division, 0x7FFFFFFF for den = 0.
\* -num wraps for num = MinI32 and -den wraps for den = -32768, as in Go.
divW32W16(num, den) ==
  IF den = 0 THEN MaxI32
  ELSE LET n1 == IF num < 0 THEN NegW32(num) ELSE num
           s1 == IF num < 0 THEN -1 ELSE 1
           d1 == IF den < 0 THEN ToI16(-den) ELSE den
           s2 == IF den < 0 THEN -s1 ELSE s1
           q  == IF n1 = MinI32
                 THEN (IF d1 < 0 THEN 65536 ELSE -((-(n1 + d1)) \div d1) - 1)
                 ELSE IF d1 < 0 THEN -(n1 \div (-d1))
                 ELSE n1 \div d1
       IN IF q = MinI32 THEN MinI32 ELSE s2 * q

(***************************************************************************)
(* Arrays and slices are finite sequences: element i of a Go array is      *)
(* element i+1 here.                                                       *)
(***************************************************************************)

\* The function f on 1..n as a sequence value (the same function).
Tup(f) == f \o << >>

\* n zeros (make([]T, n), a zero-valued array).
Zeros(n) == Tup([j \in 1..n |-> 0])

\* The value of a function on a one-element domain: [v \in {e} |-> body]
\* names the value of e as v in body, e being evaluated once, before body.
At(f) == f[CHOOSE v \in DOMAIN f : TRUE]

\* buf with the entries from Go index at on replaced by those of part.
Overwrite(buf, at, part) ==
  SubSeq(buf, 1, at) \o part \o SubSeq(buf, at + Len(part) + 1, Len(buf))

(***************************************************************************)
(* 48 kHz -> 8 kHz resampler (resample.go).                                *)
(***************************************************************************)
kResampleAllpass ==
  <<  <<821, 6110, 12382>>, <<3050, 9368, 15063>>  >>

kCoefficients48To32 ==
  <<  <<778, -2050, 1087, 23285, 12903, -3783, 441, 222>>,
      <<222, 441, -3783, 12903, 23285, 1087, -2050, 778>>  >>

\* "diff >> 14; if diff < 0 { diff += 1 }"
ShrTrunc14(d) == LET q == Shr(d, 14) IN IF q < 0 THEN q + 1 ELSE q

\* One pass of a three-stage all-pass section on the states <<s0,s1,s2,s3>>
\* with coefficient row c (the loop body shared by downBy2ShortToInt,
\* downBy2IntToShort and lpBy2IntToInt); the first stage rounds, the other
\* two truncate.  Returns the new <<s0,s1,s2,s3>>.
AllpassSection(x, s, c) ==
  LET Stage3(tmp1, tmp0) ==
        << x, tmp1, tmp0, AddW32(s[3], ShrTrunc14(SubW32(tmp0, s[4])) * c[3]) >>
      Stage2(tmp1) ==
        Stage3(tmp1, AddW32(s[2], ShrTrunc14(SubW32(tmp1, s[3])) * c[2]))
  IN Stage2(AddW32(s[1], Shr(AddW32(SubW32(x, s[2]), 8192), 14) * c[1]))

\* Runs AllpassSection over the inputs xs[lo..hi] in order, from the section
\* states s; out collects state[3] after each sample.  The range is split
\* in halves, the left half evaluated first, to keep the evaluation depth
\* logarithmic.
RECURSIVE AllpassRange(_, _, _, _, _)
AllpassRange(xs, lo, hi, s, c) ==
  IF lo = hi
  THEN LET n == AllpassSection(xs[lo], s, c) IN [out |-> << n[4] >>, s |-> n]
  ELSE LET mid == (lo + hi) \div 2
           L == AllpassRange(xs, lo, mid, s, c)
           R == AllpassRange(xs, mid + 1, hi, L.s, c)
       IN [out |-> L.out \o R.out, s |-> R.s]

AllpassRun(xs, s, c) == AllpassRange(xs, 1, Len(xs), s, c)

\* The entries of Go indices 0, 2, 4, ... (ph = 0) or 1, 3, 5, ... (ph = 1)
\* of the first 2*half entries of in.
Phase(in, half, ph) == Tup([i \in 1..half |-> in[2 * i - 1 + ph]])

\* downBy2ShortToInt(in, length, out, state): returns [out, state],
\* out of length/2 entries in Q15 with offset 16384.
downBy2ShortToInt(in, length, state) ==
  LET half == length \div 2
      Sum(lo, hi) ==
        [out   |-> Tup([i \in 1..half |-> Shr(lo.out[i], 1) + Shr(hi.out[i], 1)]),
         state |-> lo.s \o hi.s]
  IN Sum(AllpassRun(Tup([i \in 1..half |-> in[2 * i - 1] * 32768 + 16384]),
                    SubSeq(state, 1, 4), kResampleAllpass[2]),
         AllpassRun(Tup([i \in 1..half |-> in[2 * i] * 32768 + 16384]),
                    SubSeq(state, 5, 8), kResampleAllpass[1]))

\* lpBy2IntToInt(in, length, out, state): only length/2 outputs are written
\* (out[0..length/2-1]); of the 16 states, 0..3 and 8..11 are used.
lpBy2IntToInt(in, length, state) ==
  LET half == length \div 2
      Sum(lo, hi) ==
        [out   |-> Tup([i \in 1..half |-> Shr(AddW32(lo.out[i], hi.out[i]), 1)]),
         state |-> lo.s \o SubSeq(state, 5, 8) \o hi.s \o SubSeq(state, 13, 16)]
  IN Sum(AllpassRun(Phase(in, half, 0), SubSeq(state, 1, 4), kResampleAllpass[2]),
         AllpassRun(Phase(in, half, 1), SubSeq(state, 9, 12), kResampleAllpass[1]))

\* One FIR phase of resample48khzTo32khz: (1 << 14) + sum coef[j] * in[at + j],
\* entries past the end of in skipped.
RECURSIVE Fir8(_, _, _, _, _)
Fir8(in, at, coef, j, acc) ==
  IF j = 8 THEN acc
  ELSE Fir8(in, at, coef, j + 1,
            IF at + j < Len(in) THEN AddW32(acc, MulW32(in[at + j + 1], coef[j + 1]))
            ELSE acc)

\* resample48khzTo32khz(in, out, K): 2K outputs from the input in.  The Go
\* call passes overlapping slices of one buffer (out = tmpMem[0:], in =
\* tmpMem[8:]); out[2m], out[2m+1] lie below every entry read afterwards,
\* so the inputs are those of before the call.
resample48khzTo32khz(in, K) ==
  Tup([o \in 1..(2 * K) |->
         LET m == (o - 1) \div 2
         IN IF (o - 1) % 2 = 0
            THEN Fir8(in, 3 * m, kCoefficients48To32[1], 0, 16384)
            ELSE Fir8(in, 3 * m + 1, kCoefficients48To32[2], 0, 16384)])

\* Saturation to int16.
SatW16(x) == IF x > 32767 THEN 32767 ELSE IF x < -32768 THEN -32768 ELSE x

\* downBy2IntToShort(in, length, out, state): returns [out, state, in], in
\* being the input buffer as the call leaves it (overwritten in place).
downBy2IntToShort(in, length, state) ==
  LET half == length \div 2
      Sum(lo, hi, inAfter) ==
        [out   |-> Tup([i \in 1..half |->
                          SatW16(Shr(inAfter[2 * i - 1] + inAfter[2 * i], 15))]),
         state |-> lo.s \o hi.s,
         in    |-> inAfter]
      Halve(lo, hi) ==
        Sum(lo, hi, Tup([j \in 1..length |->
                           IF j % 2 = 1 THEN Shr(lo.out[(j + 1) \div 2], 1)
                           ELSE Shr(hi.out[j \div 2], 1)]))
  IN Halve(AllpassRun(Phase(in, half, 0), SubSeq(state, 1, 4), kResampleAllpass[2]),
           AllpassRun(Phase(in, half, 1), SubSeq(state, 5, 8), kResampleAllpass[1]))

\* Zero-valued state48khzTo8khz (resetResample48khzTo8khz).
resetResample48khzTo8khz ==
  [S_48_24 |-> Zeros(8), S_24_24 |-> Zeros(16),
   S_24_16 |-> Zeros(8), S_16_8 |-> Zeros(8)]

\* resample48khzTo8khzFull(in, out, state, tmpMem): one 10 ms subframe of 480
\* samples.  Returns the 80 outputs, the new state and tmpMem as it is left,
\* and with them the outputs that the low-pass stage wrote from tmpMem[16] on
\* (lowPass) and tmpMem[16..255] as the 24 -> 16 kHz stage finds it (scratch).
resample48khzTo8khzFull(in, state, tmpMem) ==
  \* 48 -> 24 kHz: downBy2ShortToInt(in, 480, tmpMem[256:], state.S_48_24)
  At([st1 \in {downBy2ShortToInt(in, 480, state.S_48_24)} |->
  At([mem1 \in {Overwrite(tmpMem, 256, st1.out)} |->
  \* 24 -> 24 kHz (low pass): lpBy2IntToInt(tmpMem[256:], 240, tmpMem[16:], ..)
  At([st2 \in {lpBy2IntToInt(SubSeq(mem1, 257, 496), 240, state.S_24_24)} |->
  \* 24 -> 16 kHz: the filter state is copied to tmpMem[8..15], the last 8
  \* inputs are saved, resample48khzTo32khz(tmpMem[8:], tmpMem, 80)
  At([mem3 \in {Overwrite(Overwrite(mem1, 16, st2.out), 8, state.S_24_16)} |->
  At([mem4 \in {Overwrite(mem3, 0,
                          resample48khzTo32khz(SubSeq(mem3, 9, Len(mem3)), 80))} |->
  \* 16 -> 8 kHz: downBy2IntToShort(tmpMem, 160, out, state.S_16_8)
  At([st4 \in {downBy2IntToShort(SubSeq(mem4, 1, 160), 160, state.S_16_8)} |->
    [out    |-> st4.out,
     state  |-> [S_48_24 |-> st1.state, S_24_24 |-> st2.state,
                 S_24_16 |-> SubSeq(mem3, 249, 256),
                 S_16_8  |-> st4.state],
     tmpMem |-> Overwrite(mem4, 0, st4.in),
     lowPass |-> st2.out,
     scratch |-> SubSeq(mem3, 17, 256)] ])])])])])])

\* resample48khzTo8khz (spl.go): copies the state into a state48khzTo8khzFull,
\* calls the full implementation and copies the state back.
resample48khzTo8khz(input, state, tmpMem) ==
  resample48khzTo8khzFull(input, state, tmpMem)

(***************************************************************************)
(* A for loop over the indices lo..hi that carries a state and appends     *)
(* output entries: Step(i, s) is one iteration, giving [out, s].  The      *)
(* range is split in halves, the left half evaluated first.                *)
(***************************************************************************)
RECURSIVE Scan(_, _, _, _)
Scan(Step(_, _), lo, hi, s) ==
  IF hi < lo THEN [out |-> << >>, s |-> s]
  ELSE IF lo = hi THEN Step(lo, s)
  ELSE LET mid == (lo + hi) \div 2
           L == Scan(Step, lo, mid, s)
           R == Scan(Step, mid + 1, hi, L.s)
       IN [out |-> L.out \o R.out, s |-> R.s]

(***************************************************************************)
(* vad_sp.go: the 2x decimator.                                            *)
(***************************************************************************)
kAllPassCoefsQ13 == << 5243, 1392 >>

\* downsampling(signalIn, signalOut, filterState, inLength): returns
\* [signalOut, filterState], signalOut of inLength/2 samples.
downsampling(signalIn, filterState, inLength) ==
  LET halfLength == Shr(inLength, 1)
      Body(n, st) ==
        LET tmp16_1 == ToI16(Shr(st[1], 1)
                             + Shr(kAllPassCoefsQ13[1] * signalIn[2 * n - 1], 14))
            tmp32_1 == signalIn[2 * n - 1] - Shr(kAllPassCoefsQ13[1] * tmp16_1, 12)
            tmp16_2 == ToI16(Shr(st[2], 1)
                             + Shr(kAllPassCoefsQ13[2] * signalIn[2 * n], 14))
            tmp32_2 == signalIn[2 * n] - Shr(kAllPassCoefsQ13[2] * tmp16_2, 12)
        IN [out |-> << ToI16(tmp16_1 + tmp16_2) >>, s |-> << tmp32_1, tmp32_2 >>]
      Ret(r) == [signalOut |-> r.out, filterState |-> r.s]
  IN Ret(Scan(Body, 1, halfLength, filterState))

(***************************************************************************)
(* vad_filterbank.go                                                       *)
(***************************************************************************)
kLogConst == 24660
kLogEnergyIntPart == 14336
kMinEnergyHigh == 10 * 1000
kMinEnergy == 10
kHpZeroCoefs == << 6631, -13262, 6631 >>
kHpPoleCoefs == << 16384, -7756, 5620 >>
kAllPassCoefsQ15 == << 20972, 5571 >>
kOffsetVector == << 368, 368, 272, 176, 176, 176 >>

\* highPassFilter(dataIn, dataLength, filterState, dataOut): returns
\* [dataOut, filterState].
highPassFilter(dataIn, dataLength, filterState) ==
  LET Body(i, fs) ==
        LET tmp32 == kHpZeroCoefs[1] * dataIn[i] + kHpZeroCoefs[2] * fs[1]
                     + kHpZeroCoefs[3] * fs[2]
                     - kHpPoleCoefs[2] * fs[3] - kHpPoleCoefs[3] * fs[4]
            y == ToI16(Shr(tmp32, 14))
        IN [out |-> << y >>, s |-> << dataIn[i], fs[1], y, fs[3] >>]
      Ret(r) == [dataOut |-> r.out, filterState |-> r.s]
  IN Ret(Scan(Body, 1, dataLength, filterState))

\* allPassFilter(dataIn, dataLength, filterCoefficient, filterState, dataOut)
\* reads dataIn[0], dataIn[2], ...; at is the Go offset of the slice passed
\* (0 for dataIn[0:], 1 for dataIn[1:]).  Returns [dataOut, filterState].
allPassFilter(dataIn, at, dataLength, filterCoefficient, filterState) ==
  LET Body(i, state32) ==
        LET x == dataIn[2 * i - 1 + at]
            tmp32 == AddW32(state32, filterCoefficient * x)
            tmp16 == Shr(tmp32, 16)
            st == x * 16384 - filterCoefficient * tmp16
        IN [out |-> << tmp16 >>, s |-> AddW32(st, st)]
      Ret(r) == [dataOut |-> r.out, filterState |-> Shr(r.s, 16)]
  IN Ret(Scan(Body, 1, dataLength, filterState * 65536))

\* splitFilter(dataIn, dataLength, upperState, lowerState, hpDataOut,
\* lpDataOut): returns [hp, lp, upperState, lowerState].
splitFilter(dataIn, dataLength, upperState, lowerState) ==
  LET halfLength == Shr(dataLength, 1)
      \* up, lw: the all-pass filtered even and odd samples
      Bands(up, lw) ==
        [hp |-> Tup([i \in 1..halfLength |-> ToI16(up.dataOut[i] - lw.dataOut[i])]),
         lp |-> Tup([i \in 1..halfLength |-> ToI16(lw.dataOut[i] + up.dataOut[i])]),
         upperState |-> up.filterState,
         lowerState |-> lw.filterState]
  IN Bands(allPassFilter(dataIn, 0, halfLength, kAllPassCoefsQ15[1], upperState),
           allPassFilter(dataIn, 1, halfLength, kAllPassCoefsQ15[2], lowerState))

(***************************************************************************)
(* spl.go: energy of a vector.  A uint32 is held as the int32 of the same  *)
(* 32 bits, so that "+=" is AddW32.                                        *)
(***************************************************************************)
\* energy > 0x40000000, unsigned
UGt30(e) == e < 0 \/ e > 1073741824

\* energy >>= 1, unsigned
UShr1(e) == IF e >= 0 THEN e \div 2 ELSE ((e - MinI32) \div 2) + 1073741824

\* "energy += uint32(sq); if energy > 0x40000000 { energy >>= 1; scaleFactor++ }"
\* on es = <<energy, scaleFactor>>.
EnergyAdd(es, sq) ==
  LET e == AddW32(es[1], sq)
  IN IF UGt30(e) THEN << UShr1(e), es[2] + 1 >> ELSE << e, es[2] >>

\* calculateEnergy(vector, vectorLength, scale): <<energy, scale>>; the main
\* loop takes four samples at a time, the second loop the remaining ones.
calculateEnergy(vector, vectorLength) ==
  LET quads == vectorLength \div 4
      Sq(j) == vector[j] * vector[j]
      Quad(g, es) ==
        [out |-> << >>,
         s   |-> EnergyAdd(es, AddW32(AddW32(Sq(4 * g - 3), Sq(4 * g - 2)),
                                      AddW32(Sq(4 * g - 1), Sq(4 * g))))]
      One(j, es) == [out |-> << >>, s |-> EnergyAdd(es, Sq(j))]
  IN Scan(One, 4 * quads + 1, vectorLength, Scan(Quad, 1, quads, << 0, 0 >>).s).s

\* logOfEnergy(dataIn, dataLength, offset, totalEnergy, logEnergy): returns
\* [totalEnergy, logEnergy].
logOfEnergy(dataIn, dataLength, offset, totalEnergy) ==
  LET \* the result for the normalized energy, shifted right by totRshifts
      \* in all, and its logarithm in dB
      Ret(totRshifts, energy, db) ==
        [totalEnergy |->
           IF totalEnergy <= kMinEnergy
           THEN IF totRshifts >= 0
                THEN ToI16(totalEnergy + kMinEnergy + 1)
                ELSE ToI16(totalEnergy + ToI16(Shr(energy, -totRshifts)))
           ELSE totalEnergy,
         logEnergy |-> ToI16((IF db < 0 THEN 0 ELSE db) + offset)]
      Log(totRshifts, energy) ==
        Ret(totRshifts, energy,
            ToI16(Shr(kLogConst * ToI16(kLogEnergyIntPart + Shr(energy % 16384, 4)), 19)
                  + ToI16(Shr(totRshifts * kLogConst, 9))))
      \* es = <<energy, scale>> of calculateEnergy
      Normalize(es, normalizingRshifts) ==
        Log(es[2] + normalizingRshifts,
            IF normalizingRshifts < 0
            THEN es[1] * (2 ^ (-normalizingRshifts))
            ELSE Shr(es[1], normalizingRshifts))
      Energy(es) ==
        IF es[1] = 0
        THEN [totalEnergy |-> totalEnergy, logEnergy |-> offset]
        ELSE Normalize(es, 17 - normU32(es[1]))
  IN Energy(calculateEnergy(dataIn, dataLength))

\* calculateFeatures(self, dataIn, dataLength, features): the six band
\* log-energies of a frame at 8 kHz.  Returns [features, totalEnergy,
\* upperState, lowerState, hpFilterState].
calculateFeatures(self, dataIn, dataLength) ==
  LET halfDataLength == Shr(dataLength, 1)
      len4 == Shr(halfDataLength, 1)
      len8 == Shr(len4, 1)
      len16 == Shr(len8, 1)
  IN
  \* 0 - 4000 Hz split at 2000 Hz
  At([sp0 \in {splitFilter(dataIn, dataLength,
                           self.upperState[1], self.lowerState[1])} |->
  \* 2000 - 4000 Hz split at 3000 Hz
  At([sp1 \in {splitFilter(sp0.hp, halfDataLength,
                           self.upperState[2], self.lowerState[2])} |->
  At([e5 \in {logOfEnergy(sp1.hp, len4, kOffsetVector[6], 0)} |->
  At([e4 \in {logOfEnergy(sp1.lp, len4, kOffsetVector[5], e5.totalEnergy)} |->
  \* 0 - 2000 Hz split at 1000 Hz
  At([sp2 \in {splitFilter(sp0.lp, halfDataLength,
                           self.upperState[3], self.lowerState[3])} |->
  At([e3 \in {logOfEnergy(sp2.hp, len4, kOffsetVector[4], e4.totalEnergy)} |->
  \* 0 - 1000 Hz split at 500 Hz
  At([sp3 \in {splitFilter(sp2.lp, len4,
                           self.upperState[4], self.lowerState[4])} |->
  At([e2 \in {logOfEnergy(sp3.hp, len8, kOffsetVector[3], e3.totalEnergy)} |->
  \* 0 - 500 Hz split at 250 Hz
  At([sp4 \in {splitFilter(sp3.lp, len8,
                           self.upperState[5], self.lowerState[5])} |->
  At([e1 \in {logOfEnergy(sp4.hp, len16, kOffsetVector[2], e2.totalEnergy)} |->
  \* 0 - 250 Hz high-pass filtered at 80 Hz
  At([hpf \in {highPassFilter(sp4.lp, len16, self.hpFilterState)} |->
  At([e0 \in {logOfEnergy(hpf.dataOut, len16, kOffsetVector[1], e1.totalEnergy)} |->
    [upperState |-> << sp0.upperState, sp1.upperState, sp2.upperState,
                       sp3.upperState, sp4.upperState >>,
     lowerState |-> << sp0.lowerState, sp1.lowerState, sp2.lowerState,
                       sp3.lowerState, sp4.lowerState >>,
     hpFilterState |-> hpf.filterState,
     features |-> << e0.logEnergy, e1.logEnergy, e2.logEnergy,
                     e3.logEnergy, e4.logEnergy, e5.logEnergy >>,
     totalEnergy |-> e0.totalEnergy] ])])])])])])])])])])])])

(***************************************************************************)
(* vad_core.go: constants and tables.                                      *)
(***************************************************************************)
kNumChannels == 6
kNumGaussians == 2
kTableSize == kNumChannels * kNumGaussians
kInitCheck == 42
kDefaultMode == 0
\* A variant with a longer run of speech frames before the long hangover.
kMaxSpeechFramesPlusOne == 6 + 1
kMaxSpeechFrames == 6
\* A variant with a lower floor of the standard deviations.
kMinStdLow == 384 - 84
kMinStd == 384
kSpectrumWeight == << 6, 8, 10, 12, 14, 16 >>
kNoiseUpdateConst == 655
kSpeechUpdateConst == 6554
kBackEta == 154
kMinimumDifference == << 544, 544, 576, 576, 576, 576 >>
kMaximumSpeech == << 11392, 11392, 11520, 11520, 11520, 11520 >>
kMinimumMean == << 640, 768 >>
kMaximumNoise == << 9216, 9088, 8960, 8832, 8704, 8576 >>
kNoiseDataWeights == << 34, 62, 72, 66, 53, 25, 94, 66, 56, 62, 75, 103 >>
kSpeechDataWeights == << 48, 82, 45, 87, 50, 47, 80, 46, 83, 41, 78, 81 >>
kNoiseDataMeans ==
  << 6738, 4892, 7065, 6715, 6771, 3369, 7646, 3863, 7820, 7266, 5020, 4362 >>
kSpeechDataMeans ==
  << 8306, 10085, 10078, 11823, 11843, 6309, 9473, 9571, 10879, 7581, 8180, 7483 >>
kNoiseDataStds == << 378, 1064, 493, 582, 688, 593, 474, 697, 475, 688, 421, 455 >>
kSpeechDataStds == << 555, 505, 567, 524, 585, 1231, 509, 828, 492, 1540, 1079, 850 >>

\* Mode tables, one row per frame length (10, 20, 30 ms): quality (0),
\* low bitrate (1), aggressive (2), very aggressive (3).
kOverHangMax1Q == << 8, 4, 3 >>
kOverHangMax2Q == << 14, 7, 5 >>
kLocalThresholdQ == << 24, 21, 24 >>
kGlobalThresholdQ == << 57, 48, 57 >>
kOverHangMax1LBR == << 8, 4, 3 >>
kOverHangMax2LBR == << 14, 7, 5 >>
kLocalThresholdLBR == << 37, 32, 37 >>
kGlobalThresholdLBR == << 100, 80, 100 >>
kOverHangMax1AGG == << 6, 3, 2 >>
kOverHangMax2AGG == << 9, 5, 3 >>
kLocalThresholdAGG == << 82, 78, 82 >>
kGlobalThresholdAGG == << 285, 260, 285 >>
kOverHangMax1VAG == << 6, 3, 2 >>
kOverHangMax2VAG == << 9, 5, 3 >>
kLocalThresholdVAG == << 94, 94, 94 >>
kGlobalThresholdVAG == << 1100, 1050, 1100 >>

(***************************************************************************)
(* vad_gmm.go                                                              *)
(***************************************************************************)
kCompVar == 22005
kLog2Exp == 5909

\* gaussianProbability(input, mean, std, delta): returns [prob, delta].
gaussianProbability(input, mean, std) ==
  LET diff == ToI16(ToI16(input * 8) - mean)
      \* neg = -(tmp32 * kLog2Exp >> 12), the exponent in Q10
      Prob(invStd, delta, tmp32, neg) ==
        LET shift == Shr((-neg) - 1, 10) + 1
            expValue == IF tmp32 < kCompVar
                        THEN IF shift < 0 \/ shift > 15 THEN 0
                             ELSE Shr(1024 + (neg % 1024), shift)
                        ELSE 0
        IN [prob |-> invStd * expValue, delta |-> delta]
      \* tmp32 = (x - m)^2 / (2 s^2) in Q10
      Exponent(invStd, delta, tmp32) ==
        Prob(invStd, delta, tmp32,
             ToI16(-ToI16(Shr(MulW32(tmp32, kLog2Exp), 12))))
      \* delta = (x - m) / s^2 in Q11
      Delta(invStd, delta) == Exponent(invStd, delta, Shr(delta * diff, 9))
      \* invStd = 1 / s in Q10
      InvStd(invStd) ==
        LET q8      == Shr(invStd, 2)
            invStd2 == ToI16(Shr(q8 * q8, 2))
        IN Delta(invStd, ToI16(Shr(invStd2 * diff, 10)))
  IN InvStd(ToI16(divW32W16(131072 + Shr(std, 1), std)))

(***************************************************************************)
(* vad_sp.go: tracking of the minimum of a feature.                        *)
(***************************************************************************)
kSmoothingDown == 6553
kSmoothingUp == 32439
WEBRTC_SPL_WORD16_MAX == 32767

\* A variant that inserts featureValue in front of the stored values.
findPositionAtFront(featureValue, sv) ==
  IF featureValue < sv[16] THEN 0 ELSE -1

\* A variant that inserts featureValue before the stored values equal to it.
findPositionBeforeEqual(featureValue, sv) ==
  IF featureValue < sv[16]
  THEN Cardinality({ i \in 1..16 : sv[i] < featureValue })
  ELSE -1

\* The insert position findMinimum chooses for featureValue among the 16
\* smallest values, -1 for none (the comparison tree of the source).
findPosition(featureValue, sv) ==
  IF featureValue < sv[8]
  THEN IF featureValue < sv[4]
       THEN IF featureValue < sv[2]
            THEN (IF featureValue < sv[1] THEN 0 ELSE 1)
            ELSE (IF featureValue < sv[3] THEN 2 ELSE 3)
       ELSE IF featureValue < sv[6]
            THEN (IF featureValue < sv[5] THEN 4 ELSE 5)
            ELSE (IF featureValue < sv[7] THEN 6 ELSE 7)
  ELSE IF featureValue < sv[16]
  THEN IF featureValue < sv[12]
       THEN IF featureValue < sv[10]
            THEN (IF featureValue < sv[9] THEN 8 ELSE 9)
            ELSE (IF featureValue < sv[11] THEN 10 ELSE 11)
       ELSE IF featureValue < sv[14]
            THEN (IF featureValue < sv[13] THEN 12 ELSE 13)
            ELSE (IF featureValue < sv[15] THEN 14 ELSE 15)
  ELSE -1

\* findMinimum(self, featureValue, channel) on the channel's 16 ages and 16
\* smallest values, self.frameCounter and self.meanValue[channel].  Returns
\* [age, smallestValues, meanValue], meanValue being also the return value.
findMinimum(age, smallestValues, frameCounter, meanValue, featureValue) ==
  LET Ageing(p, as) ==
        [out |-> << >>,
         s   |-> IF as[1][p] # 100
                 THEN << [as[1] EXCEPT ![p] = ToI16(as[1][p] + 1)], as[2] >>
                 ELSE << SubSeq(as[1], 1, p - 1) \o SubSeq(as[1], p + 1, 16) \o << 101 >>,
                         SubSeq(as[2], 1, p - 1) \o SubSeq(as[2], p + 1, 16) \o << 10000 >> >>]
      \* smoothing of the median of the values sv2 left after the insertion
      Smooth(age2, sv2) ==
        LET currentMedian == IF frameCounter > 2 THEN sv2[3]
                             ELSE IF frameCounter > 0 THEN sv2[1]
                             ELSE 1600
            alpha == IF frameCounter > 0
                     THEN (IF currentMedian < meanValue THEN kSmoothingDown
                           ELSE kSmoothingUp)
                     ELSE 0
            tmp32 == (alpha + 1) * meanValue
                     + (WEBRTC_SPL_WORD16_MAX - alpha) * currentMedian + 16384
        IN [age |-> age2, smallestValues |-> sv2, meanValue |-> ToI16(Shr(tmp32, 15))]
      \* insertion of featureValue at position, the entries from position on
      \* shifted up by one
      Insert(aged, position) ==
        Smooth(IF position > -1
               THEN SubSeq(aged[1], 1, position) \o << 1 >>
                    \o SubSeq(aged[1], position + 1, 15)
               ELSE aged[1],
               IF position > -1
               THEN SubSeq(aged[2], 1, position) \o << featureValue >>
                    \o SubSeq(aged[2], position + 1, 15)
               ELSE aged[2])
      \* aged = <<age, smallestValues>> after the ageing loop
      Find(aged) == Insert(aged, findPosition(featureValue, aged[2]))
  IN Find(Scan(Ageing, 1, 16, << age, smallestValues >>).s)

(***************************************************************************)
(* vad_core.go: the GMM decision and the model update.  Channels are       *)
(* numbered 1..6 (Go 0..5); the Gaussian k (0 or 1) of channel c is entry  *)
(* c + k * kNumChannels of a table.                                        *)
(***************************************************************************)

\* weightedAverage(data[channel:], offset, weights[channel:]): adds offset to
\* the entries of both Gaussians and returns [data, avg], the weighted sum
\* being taken after the addition.
\* A variant that leaves the means where they are.
weightedAverageNoOffset(data, c, offset, weights) ==
  [data |-> data,
   avg  |-> data[c] * weights[c] + data[c + kNumChannels] * weights[c + kNumChannels]]

\* A variant that adds the offset to the first Gaussian only.
weightedAverageFirstSlot(data, c, offset, weights) ==
  LET d0 == ToI16(data[c] + offset)
      d1 == data[c + kNumChannels]
  IN [data |-> [data EXCEPT ![c] = d0],
      avg  |-> d0 * weights[c] + d1 * weights[c + kNumChannels]]

weightedAverage(data, c, offset, weights) ==
  LET d0 == ToI16(data[c] + offset)
      d1 == ToI16(data[c + kNumChannels] + offset)
  IN [data |-> [data EXCEPT ![c] = d0, ![c + kNumChannels] = d1],
      avg  |-> d0 * weights[c] + d1 * weights[c + kNumChannels]]

\* overflowingMulS16ByS32ToS32(a, b)
overflowingMulS16ByS32ToS32(a, b) == MulW32(b, a)

\* First loop of gmmProbability for one channel: likelihoods of the feature
\* under the noise and speech models.  llr is the log likelihood ratio;
\* deltaN, deltaS, ngprvec, sgprvec are the pairs for k = 0, 1.
gmmLikelihood(self, features, c) ==
  LET \* the local probabilities of the first Gaussians, given h0, h1
      Local(llr, dN, dS, h0, h1, ng0, sg0) ==
        [llr     |-> llr,
         deltaN  |-> dN,
         deltaS  |-> dS,
         ngprvec |-> IF h0 > 0 THEN << ng0, ToI16(16384 - ng0) >> ELSE << 16384, 0 >>,
         sgprvec |-> IF h1 > 0 THEN << sg0, ToI16(16384 - sg0) >> ELSE << 0, 0 >>]
      Shifts(dN, dS, noiseProbability0, speechProbability0, h0Test, h1Test, h0, h1) ==
        Local((IF h0Test = 0 THEN 31 ELSE normW32(h0Test))
              - (IF h1Test = 0 THEN 31 ELSE normW32(h1Test)),
              dN, dS, h0, h1,
              ToI16(divW32W16(Shl2W32(noiseProbability0 - (noiseProbability0 % 4096)),
                              h0)),
              ToI16(divW32W16(Shl2W32(speechProbability0 - (speechProbability0 % 4096)),
                              h1)))
      Tests(dN, dS, noiseProbability0, speechProbability0, h0Test, h1Test) ==
        Shifts(dN, dS, noiseProbability0, speechProbability0, h0Test, h1Test,
               ToI16(Shr(h0Test, 12)), ToI16(Shr(h1Test, 12)))
      Weighted(dN, dS, noiseProbability0, noiseProbability1,
               speechProbability0, speechProbability1) ==
        Tests(dN, dS, noiseProbability0, speechProbability0,
              AddW32(noiseProbability0, noiseProbability1),
              AddW32(speechProbability0, speechProbability1))
      \* n0, n1, s0, s1: gaussianProbability under the two noise and the two
      \* speech Gaussians
      Probabilities(n0, n1, s0, s1) ==
        Weighted(<< n0.delta, n1.delta >>, << s0.delta, s1.delta >>,
                 MulW32(n0.prob, kNoiseDataWeights[c]),
                 MulW32(n1.prob, kNoiseDataWeights[c + kNumChannels]),
                 MulW32(s0.prob, kSpeechDataWeights[c]),
                 MulW32(s1.prob, kSpeechDataWeights[c + kNumChannels]))
  IN Probabilities(
       gaussianProbability(features[c], self.noiseMeans[c], self.noiseStds[c]),
       gaussianProbability(features[c], self.noiseMeans[c + kNumChannels],
                           self.noiseStds[c + kNumChannels]),
       gaussianProbability(features[c], self.speechMeans[c], self.speechStds[c]),
       gaussianProbability(features[c], self.speechMeans[c + kNumChannels],
                           self.speechStds[c + kNumChannels]))

\* The body of the k loop of gmmProbability's model update, for the Gaussian
\* g = c + k * kNumChannels: the new noise mean and, for a speech frame, the
\* new speech mean and standard deviation, or else the new noise standard
\* deviation.  lk is gmmLikelihood of the channel, maxspe the bound carried
\* from the previous channel.
gmmUpdateGaussian(self, features, c, k, lk, vadflag, featureMinimum, tmp1S16, maxspe) ==
  LET g   == c + k * kNumChannels
      nmk == self.noiseMeans[g]
      smk == self.speechMeans[g]
      nsk == self.noiseStds[g]
      ssk == self.speechStds[g]
      deltN == ToI16(Shr(lk.ngprvec[k + 1] * lk.deltaN[k + 1], 11))
      nmk2  == IF vadflag = 0
               THEN ToI16(nmk + ToI16(Shr(deltN * kNoiseUpdateConst, 22)))
               ELSE nmk
      ndelt == ToI16(ToI16(featureMinimum * 16) - tmp1S16)
      nmk3a == ToI16(nmk2 + ToI16(Shr(ndelt * kBackEta, 9)))
      nmk3b == IF nmk3a < (k + 5) * 128 THEN (k + 5) * 128 ELSE nmk3a
      nmk3  == IF nmk3b > (72 + k - (c - 1)) * 128 THEN (72 + k - (c - 1)) * 128
               ELSE nmk3b
      \* speech frame: speech mean and standard deviation
      deltS == ToI16(Shr(lk.sgprvec[k + 1] * lk.deltaS[k + 1], 11))
      stepS == ToI16(Shr(deltS * kSpeechUpdateConst, 21))
      smk2a == ToI16(smk + Shr(ToI16(stepS + 1), 1))
      maxmu == ToI16(maxspe + 640)
      smk2b == IF smk2a < kMinimumMean[k + 1] THEN kMinimumMean[k + 1] ELSE smk2a
      smk2  == IF smk2b > maxmu THEN maxmu ELSE smk2b
      sdev  == ToI16(features[c] - Shr(ToI16(smk + 4), 3))
      sT2   == SubW32(Shr(lk.deltaS[k + 1] * sdev, 3), 4096)
      sT3   == Shr(MulW32(sT2, Shr(lk.sgprvec[k + 1], 2)), 4)
      ssk10 == ToI16(ssk * 10)
      sQ    == IF sT3 > 0 THEN ToI16(divW32W16(sT3, ssk10))
               ELSE ToI16(-ToI16(divW32W16(NegW32(sT3), ssk10)))
      ssk2  == ToI16(ssk + Shr(ToI16(sQ + 128), 8))
      \* non-speech frame: noise standard deviation
      ndev  == ToI16(features[c] - Shr(nmk, 3))
      nT1   == SubW32(Shr(lk.deltaN[k + 1] * ndev, 3), 4096)
      nT2   == Shr(overflowingMulS16ByS32ToS32(Shr(ToI16(lk.ngprvec[k + 1] + 2), 2), nT1), 14)
      nQ    == IF nT2 > 0 THEN ToI16(divW32W16(nT2, nsk))
               ELSE ToI16(-ToI16(divW32W16(NegW32(nT2), nsk)))
      nsk2  == ToI16(nsk + Shr(ToI16(nQ + 32), 6))
  IN [noiseMean  |-> nmk3,
      speechMean |-> IF vadflag # 0 THEN smk2 ELSE smk,
      speechStd  |-> IF vadflag # 0 THEN (IF ssk2 < kMinStd THEN kMinStd ELSE ssk2) ELSE ssk,
      noiseStd   |-> IF vadflag # 0 THEN nsk ELSE (IF nsk2 < kMinStd THEN kMinStd ELSE nsk2)]

\* The upper bound of a global mean: if globalMean (Q14) is above limit in
\* Q7, both means of channel c are lowered by the excess.
\* A variant without the upper bound.
limitMeansNone(means, c, globalMean, limit) == means

limitMeans(means, c, globalMean, limit) ==
  LET tmp2S16 == ToI16(Shr(globalMean, 7))
      over == ToI16(tmp2S16 - limit)
  IN IF tmp2S16 > limit
     THEN [means EXCEPT ![c] = ToI16(@ - over),
                        ![c + kNumChannels] = ToI16(@ - over)]
     ELSE means

\* One pass of the second channel loop of gmmProbability (the model update
\* of channel c): the minimum tracker, the two Gaussians, then the
\* separation of the global means and their upper bounds.  Returns self.
gmmUpdateChannel(self, features, c, lk, vadflag, maxspe) ==
  LET offset == (c - 1) * 16
      \* ws, wn: the speech and noise means and their global means after
      \* the separation; the upper bounds of the global means
      Bound(fm, g0, g1, ws, wn) ==
        LET sm3 == limitMeans(ws.data, c, ws.avg, kMaximumSpeech[c])
            nm3 == limitMeans(wn.data, c, wn.avg, kMaximumNoise[c])
        IN [self EXCEPT
              !.indexVector    = Overwrite(@, offset, fm.age),
              !.lowValueVector = Overwrite(@, offset, fm.smallestValues),
              !.meanValue      = [@ EXCEPT ![c] = fm.meanValue],
              !.noiseMeans     = nm3,
              !.speechMeans    = sm3,
              !.noiseStds      = [@ EXCEPT ![c] = g0.noiseStd,
                                           ![c + kNumChannels] = g1.noiseStd],
              !.speechStds     = [@ EXCEPT ![c] = g0.speechStd,
                                           ![c + kNumChannels] = g1.speechStd]]
      \* diff: the distance of the global means in Q5; they are moved apart
      \* if it is below kMinimumDifference
      Separate(fm, g0, g1, nm1, sm1, noiseGlobalMean1, speechGlobalMean1, diff) ==
        LET short == ToI16(kMinimumDifference[c] - diff)
        IN Bound(fm, g0, g1,
                 IF diff < kMinimumDifference[c]
                 THEN weightedAverage(sm1, c, ToI16(Shr(13 * short, 2)),
                                      kSpeechDataWeights)
                 ELSE [data |-> sm1, avg |-> speechGlobalMean1],
                 IF diff < kMinimumDifference[c]
                 THEN weightedAverage(nm1, c, ToI16(-ToI16(Shr(3 * short, 2))),
                                      kNoiseDataWeights)
                 ELSE [data |-> nm1, avg |-> noiseGlobalMean1])
      GlobalMeans(fm, g0, g1, nm1, sm1, noiseGlobalMean1, speechGlobalMean1) ==
        Separate(fm, g0, g1, nm1, sm1, noiseGlobalMean1, speechGlobalMean1,
                 ToI16(ToI16(Shr(speechGlobalMean1, 9))
                       - ToI16(Shr(noiseGlobalMean1, 9))))
      Means(fm, g0, g1, nm1, sm1) ==
        GlobalMeans(fm, g0, g1, nm1, sm1,
                    weightedAverage(nm1, c, 0, kNoiseDataWeights).avg,
                    weightedAverage(sm1, c, 0, kSpeechDataWeights).avg)
      \* g0, g1: gmmUpdateGaussian of the two Gaussians
      Updated(fm, g0, g1) ==
        Means(fm, g0, g1,
              [self.noiseMeans EXCEPT ![c] = g0.noiseMean,
                                      ![c + kNumChannels] = g1.noiseMean],
              [self.speechMeans EXCEPT ![c] = g0.speechMean,
                                       ![c + kNumChannels] = g1.speechMean])
      \* the global noise mean in Q8
      tmp1S16 ==
        ToI16(Shr(weightedAverage(self.noiseMeans, c, 0, kNoiseDataWeights).avg, 6))
  IN
  At([fm \in {findMinimum(SubSeq(self.indexVector, offset + 1, offset + 16),
                          SubSeq(self.lowValueVector, offset + 1, offset + 16),
                          self.frameCounter, self.meanValue[c], features[c])} |->
  At([g0 \in {gmmUpdateGaussian(self, features, c, 0, lk, vadflag, fm.meanValue,
                                tmp1S16, maxspe)} |->
  At([g1 \in {gmmUpdateGaussian(self, features, c, 1, lk, vadflag, fm.meanValue,
                                tmp1S16, maxspe)} |->
    Updated(fm, g0, g1) ])])])

\* A variant with the value set before the loop for every channel.
maxspeFixed(c) == 12800 + 0 * c

\* maxspe as the update of channel c (from 1) finds it: 12800 is assigned
\* before the loop over the channels, and the pass of each channel assigns
\* kMaximumSpeech of that channel after its update of the Gaussians.
maxspe(c) == IF c = 1 THEN 12800 ELSE kMaximumSpeech[c - 1]

\* A variant of the smoothing with the long hangover as soon as numOfSpeech
\* is kMaxSpeechFrames after the frame.
hysteresisAtMaximum(self, vadflag, overhead1, overhead2) ==
  IF vadflag = 0
  THEN [self |-> [self EXCEPT !.overHang = IF @ > 0 THEN ToI16(@ - 1) ELSE @,
                              !.numOfSpeech = 0],
        vadflag |-> IF self.overHang > 0 THEN ToI16(2 + self.overHang) ELSE 0]
  ELSE [self |-> [self EXCEPT
                    !.numOfSpeech = IF ToI16(@ + 1) > kMaxSpeechFrames
                                    THEN kMaxSpeechFrames ELSE ToI16(@ + 1),
                    !.overHang = IF ToI16(self.numOfSpeech + 1) >= kMaxSpeechFrames
                                 THEN overhead2 ELSE overhead1],
        vadflag |-> 1]

\* A variant of the smoothing that leaves overHang as it is when it labels a
\* frame as speech by the hangover.
hysteresisKeepsHangover(self, vadflag, overhead1, overhead2) ==
  IF vadflag = 0
  THEN [self |-> [self EXCEPT !.numOfSpeech = 0],
        vadflag |-> IF self.overHang > 0 THEN ToI16(2 + self.overHang) ELSE 0]
  ELSE [self |-> [self EXCEPT
                    !.numOfSpeech = IF ToI16(@ + 1) > kMaxSpeechFrames
                                    THEN kMaxSpeechFrames ELSE ToI16(@ + 1),
                    !.overHang = IF ToI16(self.numOfSpeech + 1) > kMaxSpeechFrames
                                 THEN overhead2 ELSE overhead1],
        vadflag |-> 1]

\* A variant of the smoothing in which a frame labelled by the hangover takes
\* two frames of it.
hysteresisFastHangover(self, vadflag, overhead1, overhead2) ==
  IF vadflag = 0
  THEN [self |-> [self EXCEPT !.overHang = IF @ > 1 THEN ToI16(@ - 2) ELSE 0,
                              !.numOfSpeech = 0],
        vadflag |-> IF self.overHang > 0 THEN ToI16(2 + self.overHang) ELSE 0]
  ELSE [self |-> [self EXCEPT
                    !.numOfSpeech = IF ToI16(@ + 1) > kMaxSpeechFrames
                                    THEN kMaxSpeechFrames ELSE ToI16(@ + 1),
                    !.overHang = IF ToI16(self.numOfSpeech + 1) > kMaxSpeechFrames
                                 THEN overhead2 ELSE overhead1],
        vadflag |-> 1]

\* The smoothing of the decision at the end of gmmProbability: self is the
\* detector after the model update and vadflag the decision of the tests.
\* Returns [self, vadflag].
hysteresis(self, vadflag, overhead1, overhead2) ==
  IF vadflag = 0
  THEN [self |-> [self EXCEPT !.overHang = IF @ > 0 THEN ToI16(@ - 1) ELSE @,
                              !.numOfSpeech = 0],
        vadflag |-> IF self.overHang > 0 THEN ToI16(2 + self.overHang) ELSE 0]
  ELSE [self |-> [self EXCEPT
                    !.numOfSpeech = IF ToI16(@ + 1) > kMaxSpeechFrames
                                    THEN kMaxSpeechFrames ELSE ToI16(@ + 1),
                    !.overHang = IF ToI16(self.numOfSpeech + 1) > kMaxSpeechFrames
                                 THEN overhead2 ELSE overhead1],
        vadflag |-> 1]

\* gmmProbability(self, features, totalPower, frameLength): returns
\* [self, vadflag].
gmmProbability(self, features, totalPower, frameLength) ==
  LET row == IF frameLength = 80 THEN 1 ELSE IF frameLength = 160 THEN 2 ELSE 3
      overhead1      == self.overHangMax1[row]
      overhead2      == self.overHangMax2[row]
      individualTest == self.individual[row]
      totalTest      == self.total[row]
  IN
  \* lk[c]: gmmLikelihood of channel c
  At([lk \in {Tup([c \in 1..kNumChannels |-> gmmLikelihood(self, features, c)])} |->
  \* the local and the global test
  At([vadflag1 \in
        {LET sumLogLikelihoodRatio ==
               lk[1].llr * kSpectrumWeight[1] + lk[2].llr * kSpectrumWeight[2]
               + lk[3].llr * kSpectrumWeight[3] + lk[4].llr * kSpectrumWeight[4]
               + lk[5].llr * kSpectrumWeight[5] + lk[6].llr * kSpectrumWeight[6]
         IN IF totalPower > kMinEnergy
               /\ ((\E c \in 1..kNumChannels : ToI16(lk[c].llr * 4) > individualTest)
                   \/ sumLogLikelihoodRatio >= totalTest)
            THEN 1 ELSE 0} |->
  \* the model update, for frames above the energy gate
  At([self1 \in
        {LET Channel(c, st) ==
               [out |-> << >>,
                s   |-> gmmUpdateChannel(st, features, c, lk[c], vadflag1,
                                         maxspe(c))]
         IN IF totalPower > kMinEnergy
            THEN [Scan(Channel, 1, kNumChannels, self).s
                    EXCEPT !.frameCounter = AddW32(@, 1)]
            ELSE self} |->
    \* the hangover smoothing
    hysteresis(self1, vadflag1, overhead1, overhead2) ])])])

(***************************************************************************)
(* vad_core.go: the instance, its initialization and the mode tables.      *)
(***************************************************************************)

\* createVadInst: the zero-valued vadInst, initFlag = 0.
createVadInst ==
  [vad |-> 0, downsamplingFilterStates |-> Zeros(4),
   state48To8 |-> resetResample48khzTo8khz,
   noiseMeans |-> Zeros(kTableSize), speechMeans |-> Zeros(kTableSize),
   noiseStds |-> Zeros(kTableSize), speechStds |-> Zeros(kTableSize),
   frameCounter |-> 0, overHang |-> 0, numOfSpeech |-> 0,
   indexVector |-> Zeros(16 * kNumChannels),
   lowValueVector |-> Zeros(16 * kNumChannels),
   meanValue |-> Zeros(kNumChannels),
   upperState |-> Zeros(5), lowerState |-> Zeros(5), hpFilterState |-> Zeros(4),
   overHangMax1 |-> Zeros(3), overHangMax2 |-> Zeros(3),
   individual |-> Zeros(3), total |-> Zeros(3),
   initFlag |-> 0]

\* A variant that installs the tables of mode 0 whatever the mode.
setModeCoreQuality(self, mode) ==
  [self |-> [self EXCEPT !.overHangMax1 = kOverHangMax1Q,
                         !.overHangMax2 = kOverHangMax2Q,
                         !.individual = kLocalThresholdQ,
                         !.total = kGlobalThresholdQ],
   err |-> ""]

\* A variant that installs the tables of mode 3 - mode.
setModeCoreReversed(self, mode) ==
  IF mode \notin 0..3 THEN [self |-> self, err |-> "invalid mode"]
  ELSE [self |-> [self EXCEPT
                    !.overHangMax1 = << kOverHangMax1Q, kOverHangMax1LBR,
                                        kOverHangMax1AGG, kOverHangMax1VAG >>[4 - mode],
                    !.overHangMax2 = << kOverHangMax2Q, kOverHangMax2LBR,
                                        kOverHangMax2AGG, kOverHangMax2VAG >>[4 - mode],
                    !.individual = << kLocalThresholdQ, kLocalThresholdLBR,
                                      kLocalThresholdAGG, kLocalThresholdVAG >>[4 - mode],
                    !.total = << kGlobalThresholdQ, kGlobalThresholdLBR,
                                 kGlobalThresholdAGG, kGlobalThresholdVAG >>[4 - mode]],
        err |-> ""]

\* A variant that also restarts the frame counter.
setModeCoreRestartsCounter(self, mode) ==
  IF mode \notin 0..3 THEN [self |-> self, err |-> "invalid mode"]
  ELSE [self |-> [self EXCEPT
                    !.frameCounter = 0,
                    !.overHangMax1 = << kOverHangMax1Q, kOverHangMax1LBR,
                                        kOverHangMax1AGG, kOverHangMax1VAG >>[mode + 1],
                    !.overHangMax2 = << kOverHangMax2Q, kOverHangMax2LBR,
                                        kOverHangMax2AGG, kOverHangMax2VAG >>[mode + 1],
                    !.individual = << kLocalThresholdQ, kLocalThresholdLBR,
                                      kLocalThresholdAGG, kLocalThresholdVAG >>[mode + 1],
                    !.total = << kGlobalThresholdQ, kGlobalThresholdLBR,
                                 kGlobalThresholdAGG, kGlobalThresholdVAG >>[mode + 1]],
        err |-> ""]

\* setModeCore(self, mode): returns [self, err]; err is "" for nil.
setModeCore(self, mode) ==
  IF mode = 0
  THEN [self |-> [self EXCEPT !.overHangMax1 = kOverHangMax1Q,
                              !.overHangMax2 = kOverHangMax2Q,
                              !.individual = kLocalThresholdQ,
                              !.total = kGlobalThresholdQ],
        err |-> ""]
  ELSE IF mode = 1
  THEN [self |-> [self EXCEPT !.overHangMax1 = kOverHangMax1LBR,
                              !.overHangMax2 = kOverHangMax2LBR,
                              !.individual = kLocalThresholdLBR,
                              !.total = kGlobalThresholdLBR],
        err |-> ""]
  ELSE IF mode = 2
  THEN [self |-> [self EXCEPT !.overHangMax1 = kOverHangMax1AGG,
                              !.overHangMax2 = kOverHangMax2AGG,
                              !.individual = kLocalThresholdAGG,
                              !.total = kGlobalThresholdAGG],
        err |-> ""]
  ELSE IF mode = 3
  THEN [self |-> [self EXCEPT !.overHangMax1 = kOverHangMax1VAG,
                              !.overHangMax2 = kOverHangMax2VAG,
                              !.individual = kLocalThresholdVAG,
                              !.total = kGlobalThresholdVAG],
        err |-> ""]
  ELSE [self |-> self, err |-> "invalid mode"]

\* initCore without the reset of frameCounter, overHang and numOfSpeech.
initCoreKeepsCounters(self) ==
  LET s1 == [self EXCEPT
               !.vad = 1,
               !.downsamplingFilterStates = Zeros(4),
               !.state48To8 = resetResample48khzTo8khz,
               !.noiseMeans = kNoiseDataMeans, !.speechMeans = kSpeechDataMeans,
               !.noiseStds = kNoiseDataStds, !.speechStds = kSpeechDataStds,
               !.lowValueVector = Tup([i \in 1..(16 * kNumChannels) |-> 10000]),
               !.indexVector = Zeros(16 * kNumChannels),
               !.upperState = Zeros(5), !.lowerState = Zeros(5),
               !.hpFilterState = Zeros(4),
               !.meanValue = Tup([i \in 1..kNumChannels |-> 1600])]
      m == setModeCore(s1, kDefaultMode)
  IN IF m.err # "" THEN m
     ELSE [self |-> [m.self EXCEPT !.initFlag = kInitCheck], err |-> ""]

\* initCore(self): returns [self, err].
initCore(self) ==
  LET s1 == [self EXCEPT
               !.vad = 1, !.frameCounter = 0, !.overHang = 0, !.numOfSpeech = 0,
               !.downsamplingFilterStates = Zeros(4),
               !.state48To8 = resetResample48khzTo8khz,
               !.noiseMeans = kNoiseDataMeans, !.speechMeans = kSpeechDataMeans,
               !.noiseStds = kNoiseDataStds, !.speechStds = kSpeechDataStds,
               !.lowValueVector = Tup([i \in 1..(16 * kNumChannels) |-> 10000]),
               !.indexVector = Zeros(16 * kNumChannels),
               !.upperState = Zeros(5), !.lowerState = Zeros(5),
               !.hpFilterState = Zeros(4),
               !.meanValue = Tup([i \in 1..kNumChannels |-> 1600])]
      m == setModeCore(s1, kDefaultMode)
  IN IF m.err # "" THEN m
     ELSE [self |-> [m.self EXCEPT !.initFlag = kInitCheck], err |-> ""]

(***************************************************************************)
(* webrtcvad.go: validation of rate and frame length.                      *)
(***************************************************************************)

\* Go's integer division, truncating toward zero.
QuoInt(a, b) == IF a >= 0 THEN a \div b ELSE -((-a) \div b)

\* A variant that also accepts frames of 40 ms.
ValidRateAndFrameLength40ms(rate, frameLength) ==
  /\ rate \in {8000, 16000, 32000, 48000}
  /\ \E ms \in {10, 20, 30, 40} : frameLength = QuoInt(rate * ms, 1000)

\* ValidRateAndFrameLength(rate, frameLength)
ValidRateAndFrameLength(rate, frameLength) ==
  /\ rate \in {8000, 16000, 32000, 48000}
  /\ \E ms \in {10, 20, 30} : frameLength = QuoInt(rate * ms, 1000)

\* A variant that accepts every positive rate.
isValidSampleRatePositive(rate) == rate > 0

\* isValidSampleRate(rate)
isValidSampleRate(rate) ==
  rate = 8000 \/ rate = 16000 \/ rate = 32000 \/ rate = 48000

(***************************************************************************)
(* webrtcvad.go: the per-rate front ends.  Each returns [inst, vad].       *)
(***************************************************************************)

\* calcVad8khz(inst, speechFrame, frameLength)
calcVad8khz(inst, speechFrame, frameLength) ==
  At([cf \in {calculateFeatures(inst, speechFrame, frameLength)} |->
  At([g \in {gmmProbability([inst EXCEPT !.upperState = cf.upperState,
                                         !.lowerState = cf.lowerState,
                                         !.hpFilterState = cf.hpFilterState],
                            cf.features, cf.totalEnergy, frameLength)} |->
    [inst |-> [g.self EXCEPT !.vad = g.vadflag], vad |-> g.vadflag] ])])

\* calcVad16khz(inst, speechFrame, frameLength): speechNB has 240 entries,
\* the first frameLength/2 written by downsampling.
calcVad16khz(inst, speechFrame, frameLength) ==
  At([d \in {downsampling(speechFrame, SubSeq(inst.downsamplingFilterStates, 1, 2),
                          frameLength)} |->
    calcVad8khz([inst EXCEPT !.downsamplingFilterStates =
                                d.filterState \o SubSeq(@, 3, 4)],
                Overwrite(Zeros(240), 0, d.signalOut), QuoInt(frameLength, 2)) ])

\* calcVad32khz(inst, speechFrame, frameLength): 32 -> 16 kHz with the filter
\* states 2 and 3, then 16 -> 8 kHz with the states 0 and 1.
calcVad32khz(inst, speechFrame, frameLength) ==
  LET length == QuoInt(frameLength, 2)
  IN
  At([d1 \in {downsampling(speechFrame, SubSeq(inst.downsamplingFilterStates, 3, 4),
                           frameLength)} |->
  At([d2 \in {downsampling(Overwrite(Zeros(480), 0, d1.signalOut),
                           SubSeq(inst.downsamplingFilterStates, 1, 2), length)} |->
    calcVad8khz([inst EXCEPT !.downsamplingFilterStates =
                                d2.filterState \o d1.filterState],
                Overwrite(Zeros(240), 0, d2.signalOut), QuoInt(length, 2)) ])])

\* A variant that resamples the first subframe only.
calcVad48khzFirstSubframe(inst, speechFrame, frameLength) ==
  At([r \in {resample48khzTo8khz(SubSeq(speechFrame, 1, 480), inst.state48To8,
                                 Zeros(480 + 256))} |->
    calcVad8khz([inst EXCEPT !.state48To8 = r.state],
                Overwrite(Zeros(240), 0, r.out), QuoInt(frameLength, 6)) ])

\* calcVad48khz(inst, speechFrame, frameLength): the frame is resampled in
\* subframes of 480 samples; tmpMem is allocated (zero) once per call and
\* shared by the subframes.
calcVad48khz(inst, speechFrame, frameLength) ==
  LET num10msFrames == QuoInt(frameLength, 480)
      Resampled(r) == [out |-> r.out, s |-> [state |-> r.state, tmpMem |-> r.tmpMem]]
      Subframe(i, st) ==
        Resampled(resample48khzTo8khz(SubSeq(speechFrame, (i - 1) * 480 + 1, i * 480),
                                      st.state, st.tmpMem))
  IN
  At([rs \in {Scan(Subframe, 1, num10msFrames,
                   [state |-> inst.state48To8, tmpMem |-> Zeros(480 + 256)])} |->
    calcVad8khz([inst EXCEPT !.state48To8 = rs.s.state],
                Overwrite(Zeros(240), 0, rs.out), QuoInt(frameLength, 6)) ])

(***************************************************************************)
(* vad_core.go: process.  Returns [inst, vad, err].                        *)
(***************************************************************************)
process(inst, fs, audioFrame) ==
  LET frameLength == Len(audioFrame)
      Ret(r) == [inst |-> r.inst, vad |-> IF r.vad > 0 THEN 1 ELSE r.vad, err |-> ""]
  IN IF inst.initFlag # kInitCheck
     THEN [inst |-> inst, vad |-> -1, err |-> "VAD not initialized"]
     ELSE IF frameLength = 0
     THEN [inst |-> inst, vad |-> -1, err |-> "audio frame is nil or empty"]
     ELSE IF ~ValidRateAndFrameLength(fs, frameLength)
     THEN [inst |-> inst, vad |-> -1, err |-> "invalid rate and frame length"]
     ELSE IF fs \notin {48000, 32000, 16000, 8000}
     THEN [inst |-> inst, vad |-> -1, err |-> "unsupported sample rate"]
     ELSE Ret(IF fs = 48000 THEN calcVad48khz(inst, audioFrame, frameLength)
              ELSE IF fs = 32000 THEN calcVad32khz(inst, audioFrame, frameLength)
              ELSE IF fs = 16000 THEN calcVad16khz(inst, audioFrame, frameLength)
              ELSE calcVad8khz(inst, audioFrame, frameLength))

(***************************************************************************)
(* webrtcvad.go: the public detector.                                      *)
(***************************************************************************)

\* bytesToInt16(buf): little-endian pairs of bytes; a trailing odd byte is
\* dropped.
bytesToInt16(buf) ==
  Tup([i \in 1..(Len(buf) \div 2) |-> ToI16(buf[2 * i - 1] + buf[2 * i] * 256)])

\* New(mode): returns [inst, err]; inst is createVadInst (no detector) on
\* failure.
New(mode) ==
  IF mode < 0 \/ mode > 3
  THEN [inst |-> createVadInst, err |-> "mode must be 0-3"]
  ELSE LET Mode(m) ==
             IF m.err # "" THEN [inst |-> createVadInst, err |-> "failed to set mode"]
             ELSE [inst |-> m.self, err |-> ""]
           Core(i) ==
             IF i.err # "" THEN [inst |-> createVadInst, err |-> "failed to initialize VAD"]
             ELSE Mode(setModeCore(i.self, mode))
       IN Core(initCore(createVadInst))

\* (v *VAD) SetMode(mode): returns [inst, err].
SetMode(inst, mode) ==
  IF mode < 0 \/ mode > 3 THEN [inst |-> inst, err |-> "mode must be 0-3"]
  ELSE IF inst.initFlag # kInitCheck THEN [inst |-> inst, err |-> "VAD not initialized"]
  ELSE LET m == setModeCore(inst, mode) IN [inst |-> m.self, err |-> m.err]

\* (v *VAD) IsSpeech(buf, sampleRate): returns [inst, speech, err].
IsSpeech(inst, buf, sampleRate) ==
  LET frameLength == Len(buf) \div 2
      Result(p) ==
        IF p.err # ""
        THEN [inst |-> p.inst, speech |-> FALSE, err |-> p.err]
        ELSE [inst |-> p.inst, speech |-> p.vad > 0, err |-> ""]
  IN IF inst.initFlag # kInitCheck
     THEN [inst |-> inst, speech |-> FALSE, err |-> "VAD not initialized"]
     ELSE IF ~isValidSampleRate(sampleRate)
     THEN [inst |-> inst, speech |-> FALSE, err |-> "invalid sample rate"]
     ELSE IF ~ValidRateAndFrameLength(sampleRate, frameLength)
     THEN [inst |-> inst, speech |-> FALSE, err |-> "invalid frame length"]
     ELSE Result(process(inst, sampleRate, bytesToInt16(buf)))

\* The loop of IsSpeechBatch from frame i on (1-based): results has an entry
\* for every frame, FALSE until its frame is processed.  Returns
\* [inst, results, err, at], at being the 0-based index of the frame whose
\* error is returned.
RECURSIVE batchLoop(_, _, _, _, _)
batchLoop(inst, batch, sampleRate, i, results) ==
  IF i > Len(batch)
  THEN [inst |-> inst, results |-> results, err |-> "", at |-> 0]
  ELSE At([r \in {IsSpeech(inst, batch[i], sampleRate)} |->
         IF r.err # ""
         THEN [inst |-> r.inst, results |-> results, err |-> r.err, at |-> i - 1]
         ELSE batchLoop(r.inst, batch, sampleRate, i + 1,
                        [results EXCEPT ![i] = r.speech]) ])

\* A variant of IsSpeechBatch that leaves the first frame out.
IsSpeechBatchSkipsFirst(inst, batch, sampleRate) ==
  batchLoop(inst, batch, sampleRate, 2, Tup([i \in 1..Len(batch) |-> FALSE]))

\* (v *VAD) IsSpeechBatch(frames, sampleRate): returns [inst, results, err, at].
IsSpeechBatch(inst, batch, sampleRate) ==
  batchLoop(inst, batch, sampleRate, 1, Tup([i \in 1..Len(batch) |-> FALSE]))

(***************************************************************************)
(* stream_vad.go: the byte-stream framer.  A StreamVAD is the record       *)
(* [vad, sampleRate, frameMs, buffer, frameSize, segments, totalBytes]; a  *)
(* VoiceSegment is [Start, End, IsSpeech], the times in nanoseconds.       *)
(***************************************************************************)

\* NewStreamVAD(mode, sampleRate, frameMs): returns [s, err]; s is the
\* StreamVAD, with the detector of createVadInst on failure.
NewStreamVAD(mode, sampleRate, frameMs) ==
  LET none == [vad |-> createVadInst, sampleRate |-> 0, frameMs |-> 0,
               buffer |-> << >>, frameSize |-> 0, segments |-> << >>,
               totalBytes |-> 0]
      Made(v) ==
        IF v.err # "" THEN [s |-> none, err |-> v.err]
        ELSE [s |-> [vad |-> v.inst, sampleRate |-> sampleRate, frameMs |-> frameMs,
                     buffer |-> << >>,
                     frameSize |-> QuoInt(sampleRate * frameMs, 1000) * 2,
                     segments |-> << >>, totalBytes |-> 0],
              err |-> ""]
  IN IF ~isValidSampleRate(sampleRate)
     THEN [s |-> none, err |-> "invalid sample rate"]
     ELSE IF frameMs # 10 /\ frameMs # 20 /\ frameMs # 30
     THEN [s |-> none, err |-> "frame length must be 10, 20, or 30 ms"]
     ELSE Made(New(mode))

\* (s *StreamVAD) bytesToDuration(bytes): the time.Duration, in nanoseconds,
\* of float64(bytes / 2) / float64(sampleRate) seconds.  The float64
\* computation is exact for the numbers of samples that make whole
\* milliseconds, which are the ones totalBytes takes.
bytesToDuration(s, bytes) ==
  QuoInt(QuoInt(bytes, 2) * 1000, QuoInt(s.sampleRate, 1000)) * 1000

\* A variant of the pass that does not advance totalBytes.
writeFrameKeepsTotal(s, inst, isSpeech, newSegments) ==
  LET startTime == bytesToDuration(s, s.totalBytes)
      endTime == bytesToDuration(s, s.totalBytes + s.frameSize)
      segment == [Start |-> startTime, End |-> endTime, IsSpeech |-> isSpeech]
      n == Len(s.segments)
      extend == n > 0 /\ s.segments[n].IsSpeech = isSpeech
  IN [s |-> [s EXCEPT
               !.vad = inst,
               !.segments = IF extend THEN [@ EXCEPT ![n].End = endTime]
                            ELSE Append(@, segment),
               !.buffer = SubSeq(@, s.frameSize + 1, Len(@))],
      newSegments |-> IF extend THEN newSegments ELSE Append(newSegments, segment)]

\* A variant of the pass that starts a segment with every frame.
writeFrameNoMerge(s, inst, isSpeech, newSegments) ==
  LET startTime == bytesToDuration(s, s.totalBytes)
      endTime == bytesToDuration(s, s.totalBytes + s.frameSize)
      segment == [Start |-> startTime, End |-> endTime, IsSpeech |-> isSpeech]
  IN [s |-> [s EXCEPT
               !.vad = inst,
               !.totalBytes = @ + s.frameSize,
               !.segments = Append(@, segment),
               !.buffer = SubSeq(@, s.frameSize + 1, Len(@))],
      newSegments |-> Append(newSegments, segment)]

\* One pass of the loop of Write for a complete frame, isSpeech being the
\* decision of the frame and inst the detector after it.
writeFrame(s, inst, isSpeech, newSegments) ==
  LET startTime == bytesToDuration(s, s.totalBytes)
      endTime == bytesToDuration(s, s.totalBytes + s.frameSize)
      segment == [Start |-> startTime, End |-> endTime, IsSpeech |-> isSpeech]
      n == Len(s.segments)
      extend == n > 0 /\ s.segments[n].IsSpeech = isSpeech
  IN [s |-> [s EXCEPT
               !.vad = inst,
               !.totalBytes = @ + s.frameSize,
               !.segments = IF extend THEN [@ EXCEPT ![n].End = endTime]
                            ELSE Append(@, segment),
               !.buffer = SubSeq(@, s.frameSize + 1, Len(@))],
      newSegments |-> IF extend THEN newSegments ELSE Append(newSegments, segment)]

\* The loop of Write over the complete frames of the buffer: returns
\* [s, segments, err].
RECURSIVE writeLoop(_, _)
writeLoop(s, newSegments) ==
  IF Len(s.buffer) < s.frameSize
  THEN [s |-> s, segments |-> newSegments, err |-> ""]
  ELSE At([r \in {IsSpeech(s.vad, SubSeq(s.buffer, 1, s.frameSize), s.sampleRate)} |->
         IF r.err # ""
         THEN [s |-> [s EXCEPT !.vad = r.inst], segments |-> << >>, err |-> r.err]
         ELSE At([w \in {writeFrame(s, r.inst, r.speech, newSegments)} |->
                writeLoop(w.s, w.newSegments) ]) ])

\* (s *StreamVAD) Write(data): returns [s, segments, err], segments being
\* the new segments.
Write(s, data) == writeLoop([s EXCEPT !.buffer = @ \o data], << >>)

\* A variant of Reset that keeps the segments.
ResetKeepsSegments(s) ==
  LET i == initCore(s.vad)
  IN [s |-> [s EXCEPT !.buffer = << >>, !.totalBytes = 0, !.vad = i.self],
      err |-> i.err]

\* (s *StreamVAD) Reset(): returns [s, err].
Reset(s) ==
  LET i == initCore(s.vad)
  IN [s |-> [s EXCEPT !.buffer = << >>, !.segments = << >>, !.totalBytes = 0,
                      !.vad = i.self],
      err |-> i.err]

\* The getters of StreamVAD.
GetSegments(s) == s.segments
GetBufferSize(s) == Len(s.buffer)
GetTotalProcessed(s) == s.totalBytes
GetTotalDuration(s) == bytesToDuration(s, s.totalBytes)

\* FilterSpeechSegments and FilterSilenceSegments: the segments with
\* IsSpeech, and those without, in their order.
FilterSpeechSegments(s) == SelectSeq(s.segments, LAMBDA seg : seg.IsSpeech)
FilterSilenceSegments(s) == SelectSeq(s.segments, LAMBDA seg : ~seg.IsSpeech)

(***************************************************************************)
(* The client of one detector.  A run creates the detector with New and    *)
(* then calls SetMode and IsSpeech; it ends with the first call that        *)
(* returns an error.  The audio of a call is described by its rate, its    *)
(* length in bytes and a square wave (amplitude amp, half-period half in   *)
(* samples; amp = 0 is silence).  env fixes the frames a run draws from:   *)
(* "wide" runs draw few frames from every supported format, "deep" runs    *)
(* draw more frames from one format.                                       *)
(***************************************************************************)
\* stream is the StreamVAD of the runs that use one.  ghost is bookkeeping of
\* the client that the program does not hold: run counts the latest calls of
\* findMinimum in a row whose feature was not below any stored value, written
\* the bytes given to StreamVAD.Write since NewStreamVAD or Reset.
VARIABLES inst, created, ret, env, frames, zeroRate, stream, ghost

vars == << inst, created, ret, env, frames, zeroRate, stream, ghost >>

\* No StreamVAD.
NoStream ==
  [vad |-> createVadInst, sampleRate |-> 0, frameMs |-> 0, buffer |-> << >>,
   frameSize |-> 0, segments |-> << >>, totalBytes |-> 0]

NoGhost ==
  [run |-> 0, written |-> 0, returned |-> << >>, before |-> 0, buffered |-> 0,
   chunk |-> [rate |-> 0, bytes |-> 0, amp |-> 0, half |-> 1],
   path48 |-> [counts |-> << >>, speechNB |-> << >>, tmpMem |-> 0, chain |-> << >>,
               inst |-> createVadInst, vad |-> 0],
   batch |-> [start |-> createVadInst, given |-> << >>, results |-> << >>,
              out |-> [inst |-> createVadInst, results |-> << >>, err |-> "",
                       at |-> 0]],
   hang |-> [n |-> -1, since |-> 0],
   energy |-> 0,
   byMode |-> << >>,
   average |-> 0,
   mode |-> -1,
   twin |-> [s |-> NoStream, returned |-> << >>],
   update |-> [c |-> 0, k |-> 0, smk |-> 0, delta |-> 0, sgpr |-> 0, stored |-> 0]]

\* Largest number of frames a run processes.
MaxWideFrames == 2
MaxDeepFrames == 7

MaxFrames == IF env = "wide" THEN MaxWideFrames ELSE MaxDeepFrames

\* SetMode is called once this many frames were processed: at the end of a
\* wide run, before the last frame of a deep run or at its end.
SetModeFrom == IF env = "wide" THEN MaxWideFrames ELSE MaxDeepFrames - 1

Frame(rate, bytes, amp, half) == [rate |-> rate, bytes |-> bytes, amp |-> amp, half |-> half]

\* The 12 supported formats, silent.
ZeroMenu ==
  { Frame(rate, 2 * QuoInt(rate * ms, 1000), 0, 1) :
      rate \in {8000, 16000, 32000, 48000}, ms \in {10, 20, 30} }

\* Audible frames, and one buffer with an odd number of bytes.
ToneMenu ==
  { Frame(8000, 160, 1, 1), Frame(8000, 160, 3, 1), Frame(8000, 160, 1000, 4),
    Frame(8000, 320, 32767, 2), Frame(16000, 320, 1000, 8),
    Frame(32000, 640, 1000, 16), Frame(8000, 161, 1000, 4) }

WideMenu == ZeroMenu \cup ToneMenu

DeepMenu == { Frame(8000, 480, 0, 1), Frame(8000, 480, 1000, 4) }

\* Calls with a rate or a length outside the supported formats.
ErrMenu ==
  { Frame(rate, bytes, 0, 1) : rate \in {0, -8000, 44100}, bytes \in {0, 160, 882} }
  \cup { Frame(8000, 0, 0, 1), Frame(8000, 2, 0, 1), Frame(8000, 162, 0, 1),
         Frame(16000, 160, 0, 1), Frame(32000, 322, 0, 1), Frame(48000, 1000, 0, 1) }

\* The bytes of a frame: 16-bit little-endian samples of the square wave.
FrameBytes(d) ==
  Tup([j \in 1..d.bytes |->
         LET i == (j - 1) \div 2
             v == IF (i \div d.half) % 2 = 0 THEN d.amp ELSE -d.amp
         IN IF j % 2 = 1 THEN v % 256 ELSE (v \div 256) % 256])

\* ret is the last call: its operation, its integer argument (the mode or the
\* rate), the length it was given (bytes of the buffer, or samples for
\* ValidRateAndFrameLength), the error ("" for nil) and the boolean result.
NoCall == [op |-> "none", arg |-> 0, len |-> 0, err |-> "", result |-> FALSE]

Init ==
  /\ inst = createVadInst
  /\ created = FALSE
  /\ ret = NoCall
  /\ env \in {"wide", "deep"}
  /\ frames = 0
  /\ zeroRate = 0
  /\ stream = NoStream
  /\ ghost = NoGhost

\* v, err := New(mode)
CallNew(mode) ==
  /\ ~created
  /\ ret.err = ""
  /\ LET Return(r) ==
           /\ inst' = IF r.err = "" THEN r.inst ELSE inst
           /\ created' = (r.err = "")
           /\ ret' = [op |-> "New", arg |-> mode, len |-> 0, err |-> r.err,
                      result |-> FALSE]
     IN Return(New(mode))
  /\ UNCHANGED << env, frames, zeroRate, stream, ghost >>

\* err := v.SetMode(mode)
CallSetMode(mode) ==
  /\ created
  /\ ret.err = ""
  /\ frames >= SetModeFrom
  /\ LET Return(r) ==
           /\ inst' = r.inst
           /\ ret' = [op |-> "SetMode", arg |-> mode, len |-> 0, err |-> r.err,
                      result |-> FALSE]
     IN Return(SetMode(inst, mode))
  /\ UNCHANGED << created, env, frames, zeroRate, stream, ghost >>

\* speech, err := v.IsSpeech(buf, sampleRate).  zeroRate is the rate of the
\* frames processed since New if all of them were silent frames of one rate,
\* 0 before the first frame and -1 otherwise.
CallIsSpeech(d) ==
  /\ created
  /\ ret.err = ""
  /\ d \in ErrMenu \/ frames < MaxFrames
  /\ LET Return(r) ==
           /\ inst' = r.inst
           /\ ret' = [op |-> "IsSpeech", arg |-> d.rate, len |-> d.bytes,
                      err |-> r.err, result |-> r.speech]
           /\ frames' = IF r.err = "" THEN frames + 1 ELSE frames
           /\ zeroRate' = IF r.err # "" THEN zeroRate
                          ELSE IF d.amp = 0 /\ zeroRate \in {0, d.rate} THEN d.rate
                          ELSE -1
     IN Return(IsSpeech(inst, FrameBytes(d), d.rate))
  /\ UNCHANGED << created, env, stream, ghost >>

Next ==
  \/ \E mode \in -1..4 : CallNew(mode)
  \/ \E mode \in -1..4 : CallSetMode(mode)
  \/ \E d \in (IF env = "wide" THEN WideMenu ELSE DeepMenu) \cup ErrMenu : CallIsSpeech(d)

Spec == Init /\ [][Next]_vars

(***************************************************************************)
(* The client of ValidRateAndFrameLength, which needs no detector: every   *)
(* step is one call.  Rates are the multiples of 8000 from -8000 up to     *)
(* MaxRateUnits * 8000 and 44100; frame lengths are the multiples of 80    *)
(* from -80 up to MaxLengthUnits * 80, 100 and 441.                        *)
(***************************************************************************)
MaxRateUnits == 7
MaxLengthUnits == 19

ValidRates == { k * 8000 : k \in -1..MaxRateUnits } \cup {44100}

ValidLengths == { k * 80 : k \in -1..MaxLengthUnits } \cup {100, 441}

InitValid ==
  /\ inst = createVadInst
  /\ created = FALSE
  /\ ret = NoCall
  /\ env = "valid"
  /\ frames = 0
  /\ zeroRate = 0
  /\ stream = NoStream
  /\ ghost = NoGhost

\* ok := ValidRateAndFrameLength(rate, frameLength)
CallValid(rate, frameLength) ==
  /\ ret' = [op |-> "ValidRateAndFrameLength", arg |-> rate, len |-> frameLength,
             err |-> "", result |-> ValidRateAndFrameLength(rate, frameLength)]
  /\ UNCHANGED << inst, created, env, frames, zeroRate, stream, ghost >>

NextValid ==
  \E rate \in ValidRates : \E frameLength \in ValidLengths : CallValid(rate, frameLength)

SpecValid == InitValid /\ [][NextValid]_vars

(***************************************************************************)
(* Properties of the detector.                                             *)
(***************************************************************************)
SupportedRates == {8000, 16000, 32000, 48000}

\* The (rate, samples) pairs of 10, 20 and 30 ms at the supported rates.
Grid ==
  { <<8000, 80>>, <<8000, 160>>, <<8000, 240>>,
    <<16000, 160>>, <<16000, 320>>, <<16000, 480>>,
    <<32000, 320>>, <<32000, 640>>, <<32000, 960>>,
    <<48000, 480>>, <<48000, 960>>, <<48000, 1440>> }

\* The buffer lengths in bytes of the grid at one rate.
GridBytes(rate) == { 2 * p[2] : p \in { q \in Grid : q[1] = rate } }

\* The weighted (global) means of channel c in Q14.
speechGlobalMean(c) == weightedAverage(inst.speechMeans, c, 0, kSpeechDataWeights).avg
noiseGlobalMean(c) == weightedAverage(inst.noiseMeans, c, 0, kNoiseDataWeights).avg

\* The distance of the global means of channel c in Q5.
meanDifference(c) == Shr(speechGlobalMean(c), 9) - Shr(noiseGlobalMean(c), 9)

\* The four tables of a mode: overHangMax1, overHangMax2, individual, total.
ModeTables(mode) ==
  << << kOverHangMax1Q, kOverHangMax2Q, kLocalThresholdQ, kGlobalThresholdQ >>,
     << kOverHangMax1LBR, kOverHangMax2LBR, kLocalThresholdLBR, kGlobalThresholdLBR >>,
     << kOverHangMax1AGG, kOverHangMax2AGG, kLocalThresholdAGG, kGlobalThresholdAGG >>,
     << kOverHangMax1VAG, kOverHangMax2VAG, kLocalThresholdVAG, kGlobalThresholdVAG >> >>[mode + 1]

\* C1: IsSpeech returns false for a silent frame of a supported format when
\* every frame the detector has processed since New was a silent frame of
\* the same rate, in every mode.  The code violates it at 48000 Hz.
C1_SilenceIsNotSpeech ==
  (ret.op = "IsSpeech" /\ ret.err = "" /\ zeroRate > 0) => ~ret.result

\* C2: ValidRateAndFrameLength(rate, samples) is true exactly for the 12
\* pairs of the grid and false for every other pair, negative and zero
\* values included.
C2_ValidExactlyOnGrid ==
  ret.op = "ValidRateAndFrameLength" =>
    (ret.result <=> << ret.arg, ret.len >> \in Grid)

C2_Witness ==
  /\ ret.op = "ValidRateAndFrameLength"
  /\ ret.arg = 48000 /\ ret.len = 1440
  /\ ret.result

\* C3 as stated: after initialization and after any sequence of frames,
\* all 12 entries of noiseStds and of speechStds are at least 384.
C3_AllStdsAtLeastMinStd ==
  created => \A i \in 1..kTableSize :
               inst.noiseStds[i] >= 384 /\ inst.speechStds[i] >= 384

\* C3, amended: after initialization and after any sequence of frames, all
\* entries of speechStds and all entries of noiseStds but the first are at
\* least 384; the first entry of noiseStds is its initial value 378 or at
\* least 384.
C3_StdFloor ==
  created => \A i \in 1..kTableSize :
               /\ inst.speechStds[i] >= 384
               /\ inst.noiseStds[i] >= 384 \/ (i = 1 /\ inst.noiseStds[i] = 378)

\* A frame has brought the first entry of noiseStds to the floor.
C3_Witness ==
  /\ created /\ inst.frameCounter > 0
  /\ inst.noiseStds[1] = 384

\* C4 as stated: after processing any frame, in every band the distance of
\* the global speech mean and the global noise mean in Q5 is at least
\* kMinimumDifference of the band.
C4_MeansApartAfterAnyFrame ==
  (ret.op = "IsSpeech" /\ ret.err = "") =>
    \A c \in 1..kNumChannels : meanDifference(c) >= kMinimumDifference[c]

\* C4, amended: once a frame above the energy gate has updated the model,
\* in every band the distance of the global means in Q5 is at least
\* kMinimumDifference of the band minus one.
C4_MeansApart ==
  inst.frameCounter > 0 =>
    \A c \in 1..kNumChannels : meanDifference(c) >= kMinimumDifference[c] - 1

\* A band is one below kMinimumDifference after an update.
C4_Witness ==
  /\ inst.frameCounter > 0
  /\ \E c \in 1..kNumChannels : meanDifference(c) = kMinimumDifference[c] - 1

\* C5: in every state and every band the global speech mean in Q7 is at
\* most kMaximumSpeech of the band and the global noise mean in Q7 is at
\* most kMaximumNoise of the band.
C5_MeansBounded ==
  \A c \in 1..kNumChannels :
    /\ Shr(speechGlobalMean(c), 7) <= kMaximumSpeech[c]
    /\ Shr(noiseGlobalMean(c), 7) <= kMaximumNoise[c]

\* After an update a speech mean and a noise mean are at their bounds.
C5_Witness ==
  /\ inst.frameCounter > 0
  /\ \E c \in 1..kNumChannels : Shr(speechGlobalMean(c), 7) = kMaximumSpeech[c]
  /\ \E c \in 1..kNumChannels : Shr(noiseGlobalMean(c), 7) = kMaximumNoise[c]

\* C6: in every state, whatever the frames and the SetMode calls, overHang
\* is not negative and numOfSpeech is between 0 and 6.
C6_CountersBounded ==
  /\ inst.overHang >= 0
  /\ inst.numOfSpeech >= 0
  /\ inst.numOfSpeech <= 6

\* More than six speech frames in a row: numOfSpeech is held at 6 and the
\* long hangover of 30 ms frames is installed.
C6_Witness ==
  /\ ret.op = "IsSpeech" /\ ret.result
  /\ inst.numOfSpeech = 6
  /\ inst.overHang = inst.overHangMax2[3]

\* C8: New(m) and SetMode(m) with m outside 0..3 return the error "mode must
\* be 0-3" and leave the detector as it was; with m in 0..3 they succeed and
\* the detector holds the four tables of mode m.
C8_ModeCalls ==
  [][ret'.op \in {"New", "SetMode"} =>
       IF ret'.arg \in 0..3
       THEN /\ ret'.err = ""
            /\ created'
            /\ << inst'.overHangMax1, inst'.overHangMax2,
                  inst'.individual, inst'.total >> = ModeTables(ret'.arg)
       ELSE /\ ret'.err = "mode must be 0-3"
            /\ inst' = inst
            /\ created' = created]_vars

\* SetMode(3) succeeded on a detector that has processed frames.
C8_Witness ==
  /\ ret.op = "SetMode" /\ ret.arg = 3 /\ ret.err = ""
  /\ frames > 0
  /\ inst.total = kGlobalThresholdVAG

\* C9: IsSpeech with a supported rate fails with "invalid frame length"
\* exactly when the length of the buffer in bytes is not one of the three
\* lengths of the grid at that rate.  The code violates it for buffers of an
\* odd number of bytes.
C9_OnlyGridLengthsProcessed ==
  (ret.op = "IsSpeech" /\ ret.arg \in SupportedRates) =>
    (ret.err = "invalid frame length" <=> ret.len \notin GridBytes(ret.arg))

\* C10: IsSpeech with a rate outside the supported rates returns the error
\* "invalid sample rate" whatever the length of the buffer, and an IsSpeech
\* call that returns an error leaves the detector unchanged.
C10_FailingIsSpeech ==
  [][ret'.op = "IsSpeech" =>
       /\ ret'.arg \notin SupportedRates => ret'.err = "invalid sample rate"
       /\ ret'.err # "" => inst' = inst]_vars

\* IsSpeech at 44100 Hz failed on a detector that has processed frames.
C10_Witness ==
  /\ ret.op = "IsSpeech" /\ ret.arg = 44100 /\ ret.len = 882
  /\ ret.err = "invalid sample rate"
  /\ frames > 0

(***************************************************************************)
(* The minimum tracker of band 0 over a long run of frames above the       *)
(* energy gate.  Every step is the call of findMinimum that gmmProbability *)
(* makes for the band in such a frame, followed by the increment of        *)
(* frameCounter.  The first MaxFreeFeatures features are drawn from three  *)
(* quiet values, the features up to the 16th are 300, later ones are 500.  *)
(***************************************************************************)
MaxTrackerFrames == 120
MaxFreeFeatures == 3

TrackerFeatures ==
  IF frames < MaxFreeFeatures THEN {200, 300, 400}
  ELSE IF frames < 16 THEN {300}
  ELSE {500}

\* The 16 ages and the 16 smallest values of band 0.
bandAges == SubSeq(inst.indexVector, 1, 16)
bandValues == SubSeq(inst.lowValueVector, 1, 16)

InitTracker ==
  /\ inst = New(0).inst
  /\ created = TRUE
  /\ ret = NoCall
  /\ env = "tracker"
  /\ frames = 0
  /\ zeroRate = 0
  /\ stream = NoStream
  /\ ghost = NoGhost

\* findMinimum(self, featureValue, 0); self.frameCounter++
CallFindMinimum(featureValue) ==
  /\ frames < MaxTrackerFrames
  /\ LET Return(fm) ==
           inst' = [inst EXCEPT
                      !.indexVector    = Overwrite(@, 0, fm.age),
                      !.lowValueVector = Overwrite(@, 0, fm.smallestValues),
                      !.meanValue      = [@ EXCEPT ![1] = fm.meanValue],
                      !.frameCounter   = AddW32(@, 1)]
     IN Return(findMinimum(bandAges, bandValues, inst.frameCounter,
                           inst.meanValue[1], featureValue))
  /\ ret' = [op |-> "findMinimum", arg |-> featureValue, len |-> 0, err |-> "",
             result |-> FALSE]
  /\ frames' = frames + 1
  /\ ghost' = [ghost EXCEPT
                 !.run = IF \A i \in 1..16 : featureValue >= bandValues[i]
                         THEN @ + 1 ELSE 0]
  /\ UNCHANGED << created, env, zeroRate, stream >>

NextTracker == \E featureValue \in TrackerFeatures : CallFindMinimum(featureValue)

SpecTracker == InitTracker /\ [][NextTracker]_vars

\* C11 as stated: after 101 frames in a row whose feature was not among the
\* 16 smallest stored values of the band, the age marker 101 is in the
\* band's ages at the end of the frame.
C11_MarkerAfter101Frames ==
  (ret.op = "findMinimum" /\ ghost.run >= 101) =>
    \E i \in 1..16 : bandAges[i] = 101

\* C11, amended: take a frame whose feature is not below any of the band's
\* 16 stored values, all of them below 10000 with ages from 1 to 100.  If no
\* age is 100, nothing is inserted and every age grows by one.  If exactly
\* one entry, at slot p, has age 100, it is evicted in this frame: the slots
\* before p keep their values, the later entries slide down by one (the one
\* that lands in slot p keeps its age, the others grow by one) and the last
\* slot, where the loop wrote value 10000 and age 101, takes the feature
\* with age 1; no age 101 is left at the end of the frame.
C11_EvictionAt100 ==
  [][(/\ ret'.op = "findMinimum"
      /\ \A i \in 1..16 : /\ bandValues[i] < 10000
                          /\ bandAges[i] \in 1..100
                          /\ ret'.arg >= bandValues[i]
      /\ Cardinality({ i \in 1..16 : bandAges[i] = 100 }) <= 1)
     => LET old == { i \in 1..16 : bandAges[i] = 100 }
            age2 == SubSeq(inst'.indexVector, 1, 16)
            sv2 == SubSeq(inst'.lowValueVector, 1, 16)
        IN IF old = {}
           THEN /\ sv2 = bandValues
                /\ \A i \in 1..16 : age2[i] = bandAges[i] + 1
           ELSE LET p == CHOOSE i \in old : TRUE
                IN /\ \A i \in 1..16 :
                        /\ i < p => sv2[i] = bandValues[i] /\ age2[i] = bandAges[i] + 1
                        /\ (i >= p /\ i < 16) => sv2[i] = bandValues[i + 1]
                        /\ (i > p /\ i < 16) => age2[i] = bandAges[i + 1] + 1
                        /\ (i = p /\ i < 16) => age2[i] = bandAges[i + 1]
                   /\ sv2[16] = ret'.arg
                   /\ age2[16] = 1
                   /\ \A i \in 1..16 : age2[i] # 101]_vars

\* After 101 such frames in a row the feature of the last frame sits in the
\* last slot with age 1, all ages are from 1 to 100 and the entry of the
\* first frame is gone.
C11_Witness ==
  /\ ret.op = "findMinimum" /\ ghost.run >= 101
  /\ bandValues[16] = ret.arg /\ bandAges[16] = 1
  /\ \A i \in 1..16 : bandAges[i] \in 1..100 /\ bandValues[i] # 200 /\ bandValues[i] # 400

(***************************************************************************)
(* The client of one StreamVAD: NewStreamVAD, then Write with chunks of    *)
(* any length and Reset, in any order.  frames counts the calls of Write   *)
(* of the run; ghost.written is the number of bytes written since the      *)
(* creation or the last Reset, ghost.returned is what the last Write       *)
(* returned, ghost.chunk is the chunk it was given, and ghost.before and   *)
(* ghost.buffered are, after a Reset, the frameCounter the detector had    *)
(* and the number of bytes that were buffered before it.                   *)
(***************************************************************************)
MaxWrites == 3

\* The arguments of NewStreamVAD: four that succeed and one for each error.
StreamMenu ==
  { << 0, 8000, 30 >>, << 3, 8000, 30 >>, << 2, 16000, 10 >>, << 1, 48000, 10 >>,
    << 4, 8000, 30 >>, << 0, 44100, 30 >>, << 0, 8000, 25 >> }

\* The chunks of Write: silent ones, shorter than a frame, of one frame and of
\* several frames, and audible ones.
ChunkMenu ==
  { Frame(0, bytes, 0, 1) : bytes \in {0, 1, 479, 480, 960, 1440} }
  \cup { Frame(0, 480, 1000, 4), Frame(0, 479, 1000, 4) }

InitStream ==
  /\ inst = createVadInst
  /\ created = FALSE
  /\ ret = NoCall
  /\ env = "stream"
  /\ frames = 0
  /\ zeroRate = 0
  /\ stream = NoStream
  /\ ghost = NoGhost

\* s, err := NewStreamVAD(mode, sampleRate, frameMs)
CallNewStreamVAD(mode, sampleRate, frameMs) ==
  /\ ~created
  /\ ret.err = ""
  /\ LET Return(r) ==
           /\ stream' = IF r.err = "" THEN r.s ELSE stream
           /\ created' = (r.err = "")
           /\ ret' = [op |-> "NewStreamVAD", arg |-> mode, len |-> frameMs,
                      err |-> r.err, result |-> FALSE]
     IN Return(NewStreamVAD(mode, sampleRate, frameMs))
  /\ UNCHANGED << inst, env, frames, zeroRate, ghost >>

\* segments, err := s.Write(data)
CallWrite(d) ==
  /\ created
  /\ frames < MaxWrites
  /\ LET Return(r) ==
           /\ stream' = r.s
           /\ ret' = [op |-> "Write", arg |-> d.amp, len |-> d.bytes,
                      err |-> r.err, result |-> FALSE]
           /\ ghost' = [ghost EXCEPT !.written = @ + d.bytes,
                                     !.returned = r.segments, !.before = 0,
                                     !.buffered = 0,
                                     !.chunk = d]
     IN Return(Write(stream, FrameBytes(d)))
  /\ frames' = frames + 1
  /\ UNCHANGED << inst, created, env, zeroRate >>

\* err := s.Reset()
CallReset ==
  /\ created
  /\ LET Return(r) ==
           /\ stream' = r.s
           /\ ret' = [op |-> "Reset", arg |-> 0, len |-> 0, err |-> r.err,
                      result |-> FALSE]
     IN Return(Reset(stream))
  /\ ghost' = [ghost EXCEPT !.written = 0, !.returned = << >>,
                            !.before = stream.vad.frameCounter,
                            !.buffered = GetBufferSize(stream)]
  /\ UNCHANGED << inst, created, env, frames, zeroRate >>

NextStream ==
  \/ \E a \in StreamMenu : CallNewStreamVAD(a[1], a[2], a[3])
  \/ \E d \in ChunkMenu : CallWrite(d)
  \/ CallReset

SpecStream == InitStream /\ [][NextStream]_vars


\* C14: SetMode changes nothing of the detector but the four threshold tables,
\* and SetMode(m) called again right after SetMode(m) leaves the detector as
\* the first call left it.
C14_SetModeIdempotent ==
  [][ret'.op = "SetMode" =>
       /\ \A f \in DOMAIN inst \ {"overHangMax1", "overHangMax2", "individual", "total"} :
            inst'[f] = inst[f]
       /\ (ret.op = "SetMode" /\ ret.arg = ret'.arg) => inst' = inst
       /\ SetMode(inst', ret'.arg).inst = inst']_vars

\* SetMode(2) succeeded on a detector that is counting speech frames.
C14_Witness ==
  /\ ret.op = "SetMode" /\ ret.arg = 2 /\ ret.err = ""
  /\ inst.frameCounter > 0 /\ inst.numOfSpeech > 0
  /\ inst.total = kGlobalThresholdAGG
  /\ SetMode(inst, 2).inst = inst

\* The row of the mode tables for the frame of the last call: 1, 2 or 3 for
\* 10, 20 or 30 ms, by the number of samples at 8000 Hz.
rowOfCall(call) ==
  LET frameLength == QuoInt(QuoInt(call.len, 2), QuoInt(call.arg, 8000))
  IN IF frameLength = 80 THEN 1 ELSE IF frameLength = 160 THEN 2 ELSE 3

\* C20 as stated: when the raw decision of a frame is speech (the detector
\* keeps it as vad = 1), numOfSpeech becomes min(old + 1, kMaxSpeechFrames)
\* and overHang is overHangMax2 of the frame length if the new numOfSpeech is
\* kMaxSpeechFrames, otherwise overHangMax1 of the frame length.
C20_LongHangoverAtMaximum ==
  [][(ret'.op = "IsSpeech" /\ ret'.err = "" /\ inst'.vad = 1) =>
       /\ inst'.numOfSpeech = IF inst.numOfSpeech + 1 > kMaxSpeechFrames
                              THEN kMaxSpeechFrames ELSE inst.numOfSpeech + 1
       /\ inst'.overHang = IF inst'.numOfSpeech = kMaxSpeechFrames
                           THEN inst.overHangMax2[rowOfCall(ret')]
                           ELSE inst.overHangMax1[rowOfCall(ret')]]_vars

\* C20, amended: when the raw decision of a frame is speech, IsSpeech returns
\* true, numOfSpeech becomes min(old + 1, kMaxSpeechFrames), and overHang is
\* overHangMax2 of the frame length if numOfSpeech was kMaxSpeechFrames
\* already before the frame (the increment was cut back), otherwise
\* overHangMax1 of the frame length, also for the frame that takes numOfSpeech
\* to kMaxSpeechFrames.
C20_LongHangoverPastMaximum ==
  [][(ret'.op = "IsSpeech" /\ ret'.err = "" /\ inst'.vad = 1) =>
       /\ ret'.result
       /\ inst'.numOfSpeech = IF inst.numOfSpeech + 1 > kMaxSpeechFrames
                              THEN kMaxSpeechFrames ELSE inst.numOfSpeech + 1
       /\ inst'.overHang = IF inst.numOfSpeech = kMaxSpeechFrames
                           THEN inst.overHangMax2[rowOfCall(ret')]
                           ELSE inst.overHangMax1[rowOfCall(ret')]]_vars

\* The sixth speech frame in a row, of 30 ms: numOfSpeech is kMaxSpeechFrames
\* and the hangover is the short one.
C20_Witness ==
  /\ ret.op = "IsSpeech" /\ ret.err = "" /\ ret.result
  /\ inst.vad = 1 /\ frames = 6
  /\ inst.numOfSpeech = kMaxSpeechFrames
  /\ inst.overHang = inst.overHangMax1[3]
  /\ inst.overHangMax1[3] # inst.overHangMax2[3]

\* C21: when the raw decision of a frame is not speech (the value the detector
\* keeps as vad is not 1) and overHang was positive, the core returns
\* 2 + overHang of before the frame, overHang goes down by one, numOfSpeech
\* is 0 and IsSpeech returns true; when overHang was 0 the core returns 0,
\* overHang stays 0, numOfSpeech is 0 and IsSpeech returns false.
C21_HangoverFrames ==
  [][(ret'.op = "IsSpeech" /\ ret'.err = "" /\ inst'.vad # 1) =>
       /\ inst'.numOfSpeech = 0
       /\ IF inst.overHang > 0
          THEN /\ inst'.vad = 2 + inst.overHang
               /\ inst'.overHang = inst.overHang - 1
               /\ ret'.result
          ELSE /\ inst'.vad = 0
               /\ inst'.overHang = 0
               /\ ~ret'.result]_vars

\* A frame was labelled speech by the hangover, which has frames left.
C21_Witness ==
  /\ ret.op = "IsSpeech" /\ ret.err = "" /\ ret.result
  /\ inst.vad >= 4
  /\ inst.overHang = inst.vad - 3
  /\ inst.numOfSpeech = 0

(***************************************************************************)
(* The client of the 48 kHz path: a detector of mode 0 is given frames of  *)
(* 10, 20 and 30 ms at 48000 Hz, silent, of a tone and of a full-scale     *)
(* square wave.  ghost.chunk is the frame of the last call and             *)
(* ghost.path48 is what the loop of calcVad48khz, followed index by index, *)
(* makes of it: the number of outputs of each subframe, the 240-sample     *)
(* buffer, the size of the scratch buffer, and the detector and the flag   *)
(* that the 8 kHz pipeline gives for that buffer and a sixth of the        *)
(* samples.  ghost.path48.chain has, for each subframe, the number of       *)
(* entries that the low-pass stage wrote from tmpMem[16] on (lowPass), the *)
(* number of the entries of tmpMem[16..253] past them that held a value    *)
(* other than 0 when the 24 -> 16 kHz stage read them (stale), the state   *)
(* S_24_16 that was saved (saved) and tmpMem[248..255] at that time (last).*)
(***************************************************************************)
MaxResampleFrames == 3

ResampleMenu ==
  { Frame(48000, bytes, 0, 1) : bytes \in {960, 1920, 2880} }
  \cup { Frame(48000, bytes, 1000, 24) : bytes \in {960, 1920, 2880} }
  \cup { Frame(48000, 1920, 32767, 3) }

InitResample ==
  /\ inst = New(0).inst
  /\ created = TRUE
  /\ ret = NoCall
  /\ env = "resample"
  /\ frames = 0
  /\ zeroRate = 0
  /\ stream = NoStream
  /\ ghost = NoGhost

\* The loop of calcVad48khz from subframe i on, by its indices: subframe i is
\* speechFrame[(i-1)*480 .. i*480-1] and its outputs are written from
\* speechNB[(i-1)*80] on; counts collects the numbers of outputs.
RECURSIVE subframes48(_, _, _, _)
subframes48(speechFrame, i, num10msFrames, acc) ==
  IF i > num10msFrames THEN acc
  ELSE At([r \in {resample48khzTo8khz(SubSeq(speechFrame, (i - 1) * 480 + 1, i * 480),
                                      acc.state, acc.tmpMem)} |->
         subframes48(speechFrame, i + 1, num10msFrames,
                     [speechNB |-> Overwrite(acc.speechNB, (i - 1) * 80, r.out),
                      state |-> r.state, tmpMem |-> r.tmpMem,
                      counts |-> Append(acc.counts, Len(r.out)),
                      chain |-> Append(acc.chain,
                                       [lowPass |-> Len(r.lowPass),
                                        stale |-> Cardinality(
                                          { j \in 1..238 :
                                              /\ j > Len(r.lowPass)
                                              /\ r.scratch[j] # 0 }),
                                        saved |-> r.state.S_24_16,
                                        last |-> SubSeq(r.scratch, 233, 240)])]) ])

\* calcVad48khz followed index by index.
path48(self, speechFrame) ==
  At([e \in {subframes48(speechFrame, 1, QuoInt(Len(speechFrame), 480),
                         [speechNB |-> Zeros(240), state |-> self.state48To8,
                          tmpMem |-> Zeros(480 + 256), counts |-> << >>,
                          chain |-> << >>])} |->
  At([v \in {calcVad8khz([self EXCEPT !.state48To8 = e.state], e.speechNB,
                         QuoInt(Len(speechFrame), 6))} |->
    [counts |-> e.counts, speechNB |-> e.speechNB, tmpMem |-> Len(e.tmpMem),
     inst |-> v.inst, vad |-> v.vad, chain |-> e.chain] ])])

\* speech, err := v.IsSpeech(buf, 48000)
CallIsSpeech48(d) ==
  /\ created
  /\ frames < MaxResampleFrames
  /\ LET Return(r) ==
           /\ inst' = r.inst
           /\ ret' = [op |-> "IsSpeech", arg |-> d.rate, len |-> d.bytes,
                      err |-> r.err, result |-> r.speech]
     IN Return(IsSpeech(inst, FrameBytes(d), d.rate))
  /\ frames' = frames + 1
  /\ ghost' = [ghost EXCEPT !.chunk = d,
                            !.path48 = path48(inst, bytesToInt16(FrameBytes(d)))]
  /\ UNCHANGED << created, env, zeroRate, stream >>

NextResample == \E d \in ResampleMenu : CallIsSpeech48(d)

SpecResample == InitResample /\ [][NextResample]_vars

\* C15: the 48 kHz path takes a frame of N samples, N in {480, 960, 1440}, as
\* N/480 subframes of 480 samples, writes 80 outputs for each at consecutive
\* offsets of the 240-sample buffer, of which the rest stays as allocated and
\* the size stays 240, leaves the scratch buffer at its size, and gives N/6
\* samples to the 8 kHz pipeline.
C15_SubframesOf48k ==
  (ret.op = "IsSpeech" /\ ret.arg = 48000 /\ ret.err = "") =>
    /\ QuoInt(ret.len, 2) \in {480, 960, 1440}
    /\ Len(ghost.path48.counts) * 480 = QuoInt(ret.len, 2)
    /\ \A i \in 1..Len(ghost.path48.counts) : ghost.path48.counts[i] = 80
    /\ Len(ghost.path48.speechNB) = 240 /\ ghost.path48.tmpMem = 480 + 256
    /\ \A j \in (QuoInt(ret.len, 12) + 1)..240 : ghost.path48.speechNB[j] = 0
    /\ inst = ghost.path48.inst
    /\ ret.result = (ghost.path48.vad > 0)

\* A tone of 20 ms at 48000 Hz was processed as the third frame of a run and
\* was found to be speech; the resampler holds a state and the part of the
\* buffer that was written is not silent.
C15_Witness ==
  /\ ret.op = "IsSpeech" /\ ret.arg = 48000 /\ ret.err = ""
  /\ ret.len = 1920 /\ ghost.chunk.amp = 1000
  /\ frames = 3 /\ ret.result
  /\ \E i \in 1..8 : inst.state48To8.S_16_8[i] # 0
  /\ \E j \in 81..160 : ghost.path48.speechNB[j] # 0

\* C27 as stated: in every call of the 48 -> 8 kHz chain the low-pass stage
\* writes 240 entries from tmpMem[16] on, so the entries tmpMem[16..253] that
\* the 24 -> 16 kHz stage reads and the entries tmpMem[248..255] saved as the
\* state S_24_16 of the next call were written by it in that call.
C27_LowPassFillsScratch ==
  (ret.op = "IsSpeech" /\ ret.arg = 48000 /\ ret.err = "") =>
    \A i \in 1..Len(ghost.path48.chain) :
      LET call == ghost.path48.chain[i]
          written == 16..(16 + call.lowPass - 1)
      IN /\ call.lowPass = 240
         /\ 16..253 \subseteq written
         /\ 248..255 \subseteq written
         /\ call.saved = call.last

(***************************************************************************)
(* The client of IsSpeechBatch.  One detector is given frames of 10 ms at  *)
(* 16000 Hz one IsSpeech call at a time; ghost.batch keeps the detector as *)
(* it was created (start), the frames given, in order (given), and the     *)
(* decisions returned (results).  IsSpeechBatch is then called with the    *)
(* frames given on a detector in the state start, and ghost.batch.out is   *)
(* what it returns and the detector it leaves.                             *)
(***************************************************************************)
MaxBatchFrames == 4

BatchRate == 16000

\* Frames of 10 ms: silence, a tone, a full-scale square wave, and a buffer
\* that is not a frame.
BatchMenu ==
  { Frame(BatchRate, 320, 0, 1), Frame(BatchRate, 320, 1000, 8),
    Frame(BatchRate, 320, 32767, 2), Frame(BatchRate, 100, 0, 1) }

InitBatch ==
  /\ \E mode \in {0, 3} :
       /\ inst = New(mode).inst
       /\ ghost = [NoGhost EXCEPT !.batch.start = New(mode).inst]
  /\ created = TRUE
  /\ ret = NoCall
  /\ env = "batch"
  /\ frames = 0
  /\ zeroRate = 0
  /\ stream = NoStream

\* speech, err := v.IsSpeech(buf, BatchRate), one frame of the sequence.
CallIsSpeechSeq(d) ==
  /\ ret.op # "IsSpeechBatch"
  /\ ret.err = ""
  /\ frames < MaxBatchFrames
  /\ LET Return(r) ==
           /\ inst' = r.inst
           /\ ret' = [op |-> "IsSpeech", arg |-> d.rate, len |-> d.bytes,
                      err |-> r.err, result |-> r.speech]
           /\ ghost' = [ghost EXCEPT
                          !.batch.given = Append(@, d),
                          !.batch.results = IF r.err = "" THEN Append(@, r.speech)
                                            ELSE @]
     IN Return(IsSpeech(inst, FrameBytes(d), d.rate))
  /\ frames' = frames + 1
  /\ UNCHANGED << created, env, zeroRate, stream >>

\* results, err := w.IsSpeechBatch(frames, BatchRate), w being a detector in
\* the state start and frames the frames given so far.
CallIsSpeechBatch ==
  /\ ret.op # "IsSpeechBatch"
  /\ LET given == ghost.batch.given
         Return(r) ==
           /\ ghost' = [ghost EXCEPT !.batch.out = r]
           /\ ret' = [op |-> "IsSpeechBatch", arg |-> BatchRate, len |-> Len(given),
                      err |-> r.err, result |-> FALSE]
     IN Return(IsSpeechBatch(ghost.batch.start,
                             Tup([i \in 1..Len(given) |-> FrameBytes(given[i])]),
                             BatchRate))
  /\ UNCHANGED << inst, created, env, frames, zeroRate, stream >>

NextBatch ==
  \/ \E d \in BatchMenu : CallIsSpeechSeq(d)
  \/ CallIsSpeechBatch

SpecBatch == InitBatch /\ [][NextBatch]_vars

\* C19: IsSpeechBatch on frames that are all valid returns no error and as
\* many results as frames, result i being what the i-th of the sequential
\* IsSpeech calls returned, and it leaves its detector in the state the
\* sequential calls left theirs.
C19_BatchIsSequential ==
  (ret.op = "IsSpeechBatch" /\ Len(ghost.batch.results) = Len(ghost.batch.given)) =>
    /\ ret.err = ""
    /\ Len(ghost.batch.out.results) = Len(ghost.batch.given)
    /\ \A i \in 1..Len(ghost.batch.given) :
         ghost.batch.out.results[i] = ghost.batch.results[i]
    /\ ghost.batch.out.inst = inst

\* A batch of four frames, with silence after the tone counted as speech by
\* the hangover, on a detector of mode 3.
C19_Witness ==
  /\ ret.op = "IsSpeechBatch" /\ ret.err = "" /\ ret.len = MaxBatchFrames
  /\ ghost.batch.start.total = kGlobalThresholdVAG
  /\ ghost.batch.out.results = ghost.batch.results
  /\ \E i \in 1..(MaxBatchFrames - 1) :
       /\ ghost.batch.given[i].amp # 0 /\ ghost.batch.results[i]
       /\ ghost.batch.given[i + 1].amp = 0 /\ ghost.batch.results[i + 1]
  /\ \E i \in 1..MaxBatchFrames : ~ghost.batch.results[i]
  /\ ghost.batch.out.inst = inst /\ inst.frameCounter > 0

(***************************************************************************)
(* The client of the decision logic: a detector of mode 0 or 3 is given    *)
(* frames of 30 ms at 8000 Hz, silent, below the energy gate, near the     *)
(* thresholds of the modes and loud.  The bookkeeping of a frame is        *)
(*   ghost.hang    n, the overHang left by the last frame whose raw        *)
(*                 decision was speech (-1 before the first one), and      *)
(*                 since, the number of frames processed after it;         *)
(*   ghost.energy  the total energy calculateFeatures found in the frame.  *)
(***************************************************************************)
MaxDecisionFrames == 4

DecisionMenu ==
  { Frame(8000, 480, 0, 1), Frame(8000, 480, 1, 1), Frame(8000, 480, 30, 4),
    Frame(8000, 480, 100, 4), Frame(8000, 480, 1000, 4) }

InitDecision ==
  /\ \E mode \in {0, 3} : inst = New(mode).inst
  /\ created = TRUE
  /\ ret = NoCall
  /\ env = "decision"
  /\ frames = 0
  /\ zeroRate = 0
  /\ stream = NoStream
  /\ ghost = NoGhost

\* speech, err := v.IsSpeech(buf, 8000)
CallIsSpeechDecision(d) ==
  /\ created
  /\ frames < MaxDecisionFrames
  /\ LET Return(r) ==
           /\ inst' = r.inst
           /\ ret' = [op |-> "IsSpeech", arg |-> d.rate, len |-> d.bytes,
                      err |-> r.err, result |-> r.speech]
           /\ ghost' = [ghost EXCEPT
                          !.chunk = d,
                          !.hang = IF r.inst.vad = 1
                                   THEN [n |-> r.inst.overHang, since |-> 0]
                                   ELSE [@ EXCEPT !.since = @ + 1],
                          !.energy = calculateFeatures(
                                       inst, bytesToInt16(FrameBytes(d)),
                                       QuoInt(d.bytes, 2)).totalEnergy]
     IN Return(IsSpeech(inst, FrameBytes(d), d.rate))
  /\ frames' = frames + 1
  /\ UNCHANGED << created, env, zeroRate, stream >>

NextDecision == \E d \in DecisionMenu : CallIsSpeechDecision(d)

SpecDecision == InitDecision /\ [][NextDecision]_vars

\* C22: after a frame whose raw decision was speech and which left
\* overHang = N, as long as the raw decisions are not speech, the first N
\* frames return speech and every later frame returns non-speech.
C22_HangoverLastsN ==
  (ret.op = "IsSpeech" /\ ret.err = "" /\ ghost.hang.n >= 0 /\ ghost.hang.since > 0) =>
    /\ ret.result = (ghost.hang.since <= ghost.hang.n)
    /\ inst.overHang = IF ghost.hang.since <= ghost.hang.n
                       THEN ghost.hang.n - ghost.hang.since ELSE 0

\* A loud frame of 30 ms left overHang = 2; of the three silent frames after
\* it two were returned as speech and the third was not.
C22_Witness ==
  /\ ret.op = "IsSpeech" /\ ret.err = "" /\ ~ret.result
  /\ ghost.hang.n = 2 /\ ghost.hang.since = 3
  /\ ghost.energy <= kMinEnergy
  /\ inst.overHang = 0

\* C23: a frame whose total energy is at most 10 (kMinEnergy) leaves the
\* means, the stds, the minimum tracker, meanValue and frameCounter as they
\* were and is returned as speech exactly when overHang was positive before
\* it; a frame whose total energy is more than 10 adds one to frameCounter.
C23_EnergyGate ==
  [][(ret'.op = "IsSpeech" /\ ret'.err = "") =>
       IF ghost'.energy <= 10
       THEN /\ inst'.noiseMeans = inst.noiseMeans
            /\ inst'.speechMeans = inst.speechMeans
            /\ inst'.noiseStds = inst.noiseStds
            /\ inst'.speechStds = inst.speechStds
            /\ inst'.lowValueVector = inst.lowValueVector
            /\ inst'.indexVector = inst.indexVector
            /\ inst'.meanValue = inst.meanValue
            /\ inst'.frameCounter = inst.frameCounter
            /\ ret'.result = (inst.overHang > 0)
       ELSE inst'.frameCounter = inst.frameCounter + 1]_vars

\* A frame under the gate after frames that adapted the model, returned as
\* speech by the hangover.
C23_Witness ==
  /\ ret.op = "IsSpeech" /\ ret.err = "" /\ ret.result
  /\ ghost.energy <= 10
  /\ inst.vad >= 3
  /\ inst.frameCounter >= 2
  /\ inst.noiseMeans # kNoiseDataMeans

(***************************************************************************)
(* The client of weightedAverage: the function is applied, as              *)
(* gmmProbability applies it, to the speech means or the noise means of a  *)
(* detector, for a band and an offset; the means are changed in place and  *)
(* ghost.average is the value returned.  ret.result tells the speech means *)
(* from the noise means, ret.len is the band (from 1) and ret.arg the      *)
(* offset.                                                                 *)
(***************************************************************************)
MaxAverageCalls == 2

\* Offsets of the separation step: 0, and 13/4 and -3/4 of a distance of 32
\* and of 1.
AverageOffsets == {0, 104, -24, 3, -1}

InitAverage ==
  /\ inst = New(0).inst
  /\ created = TRUE
  /\ ret = NoCall
  /\ env = "average"
  /\ frames = 0
  /\ zeroRate = 0
  /\ stream = NoStream
  /\ ghost = NoGhost

\* weightedAverage(self.speechMeans[channel:], offset, kSpeechDataWeights[channel:])
\* or the same for the noise means, channel being c - 1.
CallWeightedAverage(speech, c, offset) ==
  /\ frames < MaxAverageCalls
  /\ LET Return(r) ==
           /\ inst' = IF speech THEN [inst EXCEPT !.speechMeans = r.data]
                      ELSE [inst EXCEPT !.noiseMeans = r.data]
           /\ ghost' = [ghost EXCEPT !.average = r.avg]
     IN Return(weightedAverage(IF speech THEN inst.speechMeans ELSE inst.noiseMeans,
                               c, offset,
                               IF speech THEN kSpeechDataWeights
                               ELSE kNoiseDataWeights))
  /\ ret' = [op |-> "weightedAverage", arg |-> offset, len |-> c, err |-> "",
             result |-> speech]
  /\ frames' = frames + 1
  /\ UNCHANGED << created, env, zeroRate, stream >>

NextAverage ==
  \E speech \in BOOLEAN : \E c \in 1..kNumChannels : \E offset \in AverageOffsets :
    CallWeightedAverage(speech, c, offset)

SpecAverage == InitAverage /\ [][NextAverage]_vars

\* C24 as stated: weightedAverage adds the offset to the slot of the first
\* Gaussian of the band and leaves the slot of the second Gaussian (6 further)
\* as it was.
C24_OnlyFirstGaussianShifted ==
  [][ret'.op = "weightedAverage" =>
       LET c == ret'.len
           before == IF ret'.result THEN inst.speechMeans ELSE inst.noiseMeans
           after == IF ret'.result THEN inst'.speechMeans ELSE inst'.noiseMeans
       IN /\ after[c] = before[c] + ret'.arg
          /\ after[c + kNumChannels] = before[c + kNumChannels]]_vars

\* C24, amended: weightedAverage adds the offset to the slots of both
\* Gaussians of the band and to no other slot, leaves the other table alone,
\* and returns the sum of the two shifted means times their weights.
C24_BothGaussiansShifted ==
  [][ret'.op = "weightedAverage" =>
       LET c == ret'.len
           before == IF ret'.result THEN inst.speechMeans ELSE inst.noiseMeans
           after == IF ret'.result THEN inst'.speechMeans ELSE inst'.noiseMeans
           weights == IF ret'.result THEN kSpeechDataWeights ELSE kNoiseDataWeights
       IN /\ after[c] = before[c] + ret'.arg
          /\ after[c + kNumChannels] = before[c + kNumChannels] + ret'.arg
          /\ \A i \in 1..kTableSize :
               i \notin {c, c + kNumChannels} => after[i] = before[i]
          /\ ret'.result => inst'.noiseMeans = inst.noiseMeans
          /\ ~ret'.result => inst'.speechMeans = inst.speechMeans
          /\ ghost'.average = after[c] * weights[c]
                              + after[c + kNumChannels] * weights[c + kNumChannels]]_vars

\* The speech means of the third band were moved up by 104: both Gaussians
\* are 104 above their tabulated means.
C24_Witness ==
  /\ ret.op = "weightedAverage" /\ ret.result /\ ret.len = 3 /\ ret.arg = 104
  /\ frames = 1
  /\ inst.speechMeans[3] = kSpeechDataMeans[3] + 104
  /\ inst.speechMeans[3 + kNumChannels] = kSpeechDataMeans[3 + kNumChannels] + 104

(***************************************************************************)
(* The client of the modes: a detector of mode 0 or 2 is given frames of   *)
(* 10, 20 and 30 ms at 8000 Hz and of 10 ms at 16000 Hz, silent, near the  *)
(* thresholds of the modes and loud.  ghost.byMode holds the decisions     *)
(* that IsSpeech gives for the frame of the call on four copies of the     *)
(* detector as it was before the call, set to the modes 0, 1, 2 and 3.     *)
(***************************************************************************)
MaxModeFrames == 3

ModeMenu ==
  { Frame(8000, bytes, amp, 4) : bytes \in {160, 320, 480}, amp \in {30, 100} }
  \cup { Frame(8000, 160, 0, 1), Frame(8000, 480, 1000, 4), Frame(16000, 320, 100, 8) }

InitModes ==
  /\ \E mode \in {0, 2} : inst = New(mode).inst
  /\ created = TRUE
  /\ ret = NoCall
  /\ env = "modes"
  /\ frames = 0
  /\ zeroRate = 0
  /\ stream = NoStream
  /\ ghost = NoGhost

\* speech, err := v.IsSpeech(buf, rate), and for each mode m on a copy w of v:
\* w.SetMode(m); w.IsSpeech(buf, rate)
CallIsSpeechModes(d) ==
  /\ created
  /\ frames < MaxModeFrames
  /\ LET Return(r) ==
           /\ inst' = r.inst
           /\ ret' = [op |-> "IsSpeech", arg |-> d.rate, len |-> d.bytes,
                      err |-> r.err, result |-> r.speech]
     IN Return(IsSpeech(inst, FrameBytes(d), d.rate))
  /\ ghost' = [ghost EXCEPT
                 !.chunk = d,
                 !.byMode = Tup([m \in 1..4 |->
                              IsSpeech(SetMode(inst, m - 1).inst,
                                       FrameBytes(d), d.rate).speech])]
  /\ frames' = frames + 1
  /\ UNCHANGED << created, env, zeroRate, stream >>

NextModes == \E d \in ModeMenu : CallIsSpeechModes(d)

SpecModes == InitModes /\ [][NextModes]_vars

\* C29: for a detector state and a frame, the decisions of copies of the
\* state that differ in the mode only are monotone in the mode: if IsSpeech
\* returns true under mode m, it returns true under every mode below m.
C29_MonotoneInMode ==
  (ret.op = "IsSpeech" /\ ret.err = "") =>
    \A m \in 0..3 : \A lower \in 0..3 :
      (lower < m /\ ghost.byMode[m + 1]) => ghost.byMode[lower + 1]

\* A second or later frame, of 20 ms, that is speech under the modes 0 and 1
\* and not under the modes 2 and 3.
C29_Witness ==
  /\ ret.op = "IsSpeech" /\ ret.err = "" /\ frames >= 2
  /\ ret.arg = 8000 /\ ret.len = 320
  /\ ghost.byMode = << TRUE, TRUE, FALSE, FALSE >>

(***************************************************************************)
(* The client of the update of a speech mean: gmmUpdateGaussian is applied *)
(* as the update loop of gmmProbability applies it on a frame whose        *)
(* decision is speech, to Gaussian k of channel c (from 1) of a detector   *)
(* whose speech mean of that Gaussian is smk, with the difference delta    *)
(* and the probability sgpr that gmmLikelihood would give.  ghost.update   *)
(* keeps these and the speech mean that is stored.                         *)
(***************************************************************************)
UpdateMeans == {600, 700, 9000, 12000, 12030, 12150, 13430}

UpdateDeltas == {-4000, 0, 7, 4000}

UpdateProbabilities == {0, 8192, 16384}

InitUpdate ==
  /\ inst = New(0).inst
  /\ created = TRUE
  /\ ret = NoCall
  /\ env = "update"
  /\ frames = 0
  /\ zeroRate = 0
  /\ stream = NoStream
  /\ ghost = NoGhost

\* The speech branch of the update of one Gaussian (vadflag # 0).
CallUpdateSpeechMean(c, k, smk, delta, sgpr) ==
  /\ LET g == c + k * kNumChannels
         self == [inst EXCEPT !.speechMeans[g] = smk]
         lk == [llr |-> 0, deltaN |-> << 0, 0 >>,
                deltaS |-> [i \in 1..2 |-> IF i = k + 1 THEN delta ELSE 0],
                ngprvec |-> << 16384, 0 >>,
                sgprvec |-> [i \in 1..2 |-> IF i = k + 1 THEN sgpr ELSE 16384 - sgpr]]
         features == [i \in 1..kNumChannels |-> 1000]
     IN ghost' = [ghost EXCEPT
                    !.update = [c |-> c, k |-> k, smk |-> smk, delta |-> delta,
                                sgpr |-> sgpr,
                                stored |-> gmmUpdateGaussian(
                                             self, features, c, k, lk, 1, 1600, 0,
                                             maxspe(c)).speechMean]]
  /\ ret' = [op |-> "gmmUpdateGaussian", arg |-> c, len |-> k, err |-> "",
             result |-> TRUE]
  /\ UNCHANGED << inst, created, env, frames, zeroRate, stream >>

NextUpdate ==
  \E c \in 1..kNumChannels : \E k \in 0..(kNumGaussians - 1) :
    \E smk \in UpdateMeans : \E delta \in UpdateDeltas :
      \E sgpr \in UpdateProbabilities :
        CallUpdateSpeechMean(c, k, smk, delta, sgpr)

SpecUpdate == InitUpdate /\ [][NextUpdate]_vars

\* smk + ((((delta * sgpr) >> 11) * kSpeechUpdateConst >> 21) + 1 >> 1)
updatedSpeechMean(u) ==
  u.smk + Shr(Shr(Shr(u.delta * u.sgpr, 11) * kSpeechUpdateConst, 21) + 1, 1)

\* C25 as stated: on a frame whose decision is speech the speech mean stored
\* for Gaussian k of any band is the updated value held between
\* kMinimumMean[k] and 13440.
C25_SameBoundForEveryBand ==
  ret.op = "gmmUpdateGaussian" =>
    ghost.update.stored =
      IF updatedSpeechMean(ghost.update) < kMinimumMean[ghost.update.k + 1]
      THEN kMinimumMean[ghost.update.k + 1]
      ELSE IF updatedSpeechMean(ghost.update) > 13440 THEN 13440
      ELSE updatedSpeechMean(ghost.update)

\* C25, amended: the speech mean stored is the updated value held between
\* kMinimumMean[k] and an upper bound that is 13440 for band 0 only; for band
\* b >= 1 it is kMaximumSpeech[b - 1] + 640, which is 12032 for the bands 1
\* and 2 and 12160 for the bands 3, 4 and 5.
C25_BoundOfPreviousBand ==
  ret.op = "gmmUpdateGaussian" =>
    LET band == ghost.update.c - 1
        bound == IF band = 0 THEN 13440
                 ELSE IF band \in {1, 2} THEN 12032
                 ELSE 12160
    IN /\ band >= 1 => bound = kMaximumSpeech[band] + 640
       /\ ghost.update.stored =
            IF updatedSpeechMean(ghost.update) < kMinimumMean[ghost.update.k + 1]
            THEN kMinimumMean[ghost.update.k + 1]
            ELSE IF updatedSpeechMean(ghost.update) > bound THEN bound
            ELSE updatedSpeechMean(ghost.update)

\* An update of band 3 that would take the mean from 12150 to 12200 stores
\* 12160.
C25_Witness ==
  /\ ret.op = "gmmUpdateGaussian"
  /\ ghost.update.c = 4 /\ ghost.update.smk = 12150
  /\ updatedSpeechMean(ghost.update) = 12200
  /\ ghost.update.stored = 12160

(***************************************************************************)
(* The minimum trackers of the six bands over a long run of frames above   *)
(* the energy gate.  Every step is one call of findMinimum of the loop     *)
(* over the channels of gmmProbability: call number n (from 0) is the one  *)
(* of channel n % 6 in frame n \div 6, and frameCounter grows after the    *)
(* call of channel 5.  The feature of channel 0 is drawn from a set that   *)
(* depends on the frame, the feature of each other channel is 10 above the *)
(* one of the channel before it.                                           *)
(***************************************************************************)
MaxBandFrames == 104

BandFeatures ==
  IF frames % kNumChannels # 0 THEN {ret.arg + 10}
  ELSE IF frames < MaxFreeFeatures * kNumChannels THEN {200, 300, 400}
  ELSE IF frames < 100 * kNumChannels THEN {300}
  ELSE {250, 500}

InitBands ==
  /\ inst = New(0).inst
  /\ created = TRUE
  /\ ret = NoCall
  /\ env = "bands"
  /\ frames = 0
  /\ zeroRate = 0
  /\ stream = NoStream
  /\ ghost = NoGhost

\* featureMinimum = findMinimum(self, features[channel], channel)
CallFindMinimumOfBand(featureValue) ==
  /\ frames < MaxBandFrames * kNumChannels
  /\ LET channel == frames % kNumChannels
         offset == channel * 16
         Return(fm) ==
           inst' = [inst EXCEPT
                      !.indexVector    = Overwrite(@, offset, fm.age),
                      !.lowValueVector = Overwrite(@, offset, fm.smallestValues),
                      !.meanValue      = [@ EXCEPT ![channel + 1] = fm.meanValue],
                      !.frameCounter   = IF channel = kNumChannels - 1
                                         THEN AddW32(@, 1) ELSE @]
     IN /\ Return(findMinimum(SubSeq(inst.indexVector, offset + 1, offset + 16),
                              SubSeq(inst.lowValueVector, offset + 1, offset + 16),
                              inst.frameCounter, inst.meanValue[channel + 1],
                              featureValue))
        /\ ret' = [op |-> "findMinimum", arg |-> featureValue, len |-> channel,
                   err |-> "", result |-> FALSE]
  /\ frames' = frames + 1
  /\ UNCHANGED << created, env, zeroRate, stream, ghost >>

NextBands == \E featureValue \in BandFeatures : CallFindMinimumOfBand(featureValue)

SpecBands == InitBands /\ [][NextBands]_vars

\* C26: a call of findMinimum for one band leaves the band's 16 values in
\* non-decreasing order, every stored value with its own age (each pair of
\* a value and an age is the featureValue with age 1, the filler 10000 of an
\* eviction with an age above 100, or a pair the band held before the call
\* whose age is the same or one more), and changes nothing of the detector
\* but the band's 16 slots of lowValueVector and indexVector and the band's
\* entry of meanValue (frameCounter is the caller's).
C26_SortedPairsOfOneBand ==
  [][ret'.op = "findMinimum" =>
       LET offset == ret'.len * 16
           Slots == (offset + 1)..(offset + 16)
       IN /\ \A i \in Slots \ {offset + 16} :
               inst'.lowValueVector[i] <= inst'.lowValueVector[i + 1]
          /\ \A j \in Slots :
               \/ inst'.lowValueVector[j] = ret'.arg /\ inst'.indexVector[j] = 1
               \/ inst'.lowValueVector[j] = 10000 /\ inst'.indexVector[j] \in {101, 102}
               \/ \E i \in Slots :
                    /\ inst'.lowValueVector[j] = inst.lowValueVector[i]
                    /\ inst'.indexVector[j] - inst.indexVector[i] \in {0, 1}
          /\ \A i \in (1..(16 * kNumChannels)) \ Slots :
               /\ inst'.lowValueVector[i] = inst.lowValueVector[i]
               /\ inst'.indexVector[i] = inst.indexVector[i]
          /\ \A b \in (1..kNumChannels) \ {ret'.len + 1} :
               inst'.meanValue[b] = inst.meanValue[b]
          /\ [inst' EXCEPT !.lowValueVector = inst.lowValueVector,
                           !.indexVector = inst.indexVector,
                           !.meanValue = inst.meanValue,
                           !.frameCounter = inst.frameCounter] = inst]_vars

\* Band 3 after more than 100 frames: the entry of the first frame has been
\* evicted and the feature 280 of this frame sits with age 1 below stored
\* values 330, in order, while the bands around it hold other values.
C26_Witness ==
  /\ ret.op = "findMinimum" /\ ret.len = 3 /\ ret.arg = 280
  /\ frames > 100 * kNumChannels
  /\ \E j \in 49..63 :
       /\ inst.lowValueVector[j] = 280 /\ inst.indexVector[j] = 1
       /\ inst.lowValueVector[j + 1] = 330
  /\ \A i \in 49..64 : inst.indexVector[i] \in 1..100
  /\ \A i \in 33..48 : inst.lowValueVector[i] \notin {280, 330}

(***************************************************************************)
(* Properties of the stream.                                               *)
(***************************************************************************)

\* C12: re-running initCore on a detector in any reachable state, as Reset
\* does, yields exactly the state of a newly created and initialized
\* detector: vad = 1, zeroed counters, zeroed filterbank, decimator and 48->8
\* resampler states, the tabulated means and stds, minimum-tracker values
\* 10000 with age 0, mean_value 1600 and the mode-0 threshold tables.
C12_ResetReinitializes ==
  [][ ret'.op = "Reset" =>
        /\ stream'.vad = New(0).inst
        /\ stream'.vad.vad = 1
        /\ stream'.vad.frameCounter = 0
        /\ stream'.vad.overHang = 0
        /\ stream'.vad.numOfSpeech = 0
        /\ stream'.vad.upperState = Zeros(5)
        /\ stream'.vad.lowerState = Zeros(5)
        /\ stream'.vad.hpFilterState = Zeros(4)
        /\ stream'.vad.downsamplingFilterStates = Zeros(4)
        /\ \A f \in DOMAIN stream'.vad.state48To8 :
             \A i \in DOMAIN stream'.vad.state48To8[f] :
               stream'.vad.state48To8[f][i] = 0
        /\ stream'.vad.noiseMeans = kNoiseDataMeans
        /\ stream'.vad.speechMeans = kSpeechDataMeans
        /\ stream'.vad.noiseStds = kNoiseDataStds
        /\ stream'.vad.speechStds = kSpeechDataStds
        /\ \A i \in 1..(16 * kNumChannels) :
             stream'.vad.lowValueVector[i] = 10000 /\ stream'.vad.indexVector[i] = 0
        /\ \A c \in 1..kNumChannels : stream'.vad.meanValue[c] = 1600
        /\ stream'.vad.overHangMax1 = kOverHangMax1Q
        /\ stream'.vad.overHangMax2 = kOverHangMax2Q
        /\ stream'.vad.individual = kLocalThresholdQ
        /\ stream'.vad.total = kGlobalThresholdQ ]_vars

\* A Reset of a 48 kHz stream whose detector had processed three frames or more.
C12_Witness ==
  /\ ret.op = "Reset" /\ ret.err = ""
  /\ ghost.before >= 3
  /\ stream.sampleRate = 48000
  /\ stream.vad = New(0).inst


\* C16: after any sequence of Write calls with chunks of any length, fewer
\* bytes than a frame are buffered, the number of bytes processed is a
\* multiple of the frame size, and processed plus buffered bytes are the bytes
\* written since the creation or the last Reset; a Write that does not
\* complete a frame processes nothing and returns no segment.
C16_WriteAccounting ==
  [][created' =>
       /\ GetBufferSize(stream') >= 0
       /\ GetBufferSize(stream') < stream'.frameSize
       /\ GetTotalProcessed(stream') % stream'.frameSize = 0
       /\ GetTotalProcessed(stream') + GetBufferSize(stream') = ghost'.written
       /\ (ret'.op = "Write" /\ frames' = frames + 1
           /\ GetBufferSize(stream) + ghost'.chunk.bytes < stream.frameSize)
          => /\ ret'.err = ""
             /\ ghost'.returned = << >>
             /\ GetTotalProcessed(stream') = GetTotalProcessed(stream)
             /\ GetSegments(stream') = GetSegments(stream)
             /\ GetBufferSize(stream') = GetBufferSize(stream) + ghost'.chunk.bytes]_vars

\* Three frames of 30 ms at 8000 Hz went in as one chunk, then one byte and
\* one more: the last Write returned nothing and two bytes are buffered.
C16_Witness ==
  /\ ret.op = "Write" /\ ret.err = ""
  /\ stream.frameSize = 480
  /\ ghost.chunk.bytes = 1 /\ ghost.returned = << >>
  /\ GetBufferSize(stream) = 2
  /\ GetTotalProcessed(stream) = 1440
  /\ ghost.written = 1442

\* C17: the segments of GetSegments group the consecutive equal decisions:
\* there is one as soon as a frame was processed, the first starts at 0, each
\* ends where the next starts and has the opposite decision, none is empty,
\* the last ends at the duration of the bytes processed, and every segment is
\* either among the speech segments or among the silence segments.
C17_SegmentsPartition ==
  created =>
    LET segs == GetSegments(stream)
        n == Len(segs)
    IN /\ (n = 0) = (GetTotalProcessed(stream) = 0)
       /\ n > 0 => /\ segs[1].Start = 0
                   /\ segs[n].End = bytesToDuration(stream, GetTotalProcessed(stream))
                   /\ segs[n].End = GetTotalDuration(stream)
       /\ \A i \in 1..n : segs[i].Start < segs[i].End
       /\ \A i \in 1..(n - 1) : /\ segs[i].IsSpeech # segs[i + 1].IsSpeech
                                /\ segs[i].End = segs[i + 1].Start
       /\ Len(FilterSpeechSegments(stream)) + Len(FilterSilenceSegments(stream)) = n
       /\ \A i \in 1..n :
            \/ \E j \in 1..Len(FilterSpeechSegments(stream)) :
                 FilterSpeechSegments(stream)[j] = segs[i]
            \/ \E j \in 1..Len(FilterSilenceSegments(stream)) :
                 FilterSilenceSegments(stream)[j] = segs[i]

\* Two silent frames of 30 ms, a tone and three silent frames at 8000 Hz:
\* 60 ms of silence, 90 ms of speech (the tone and the hangover) and 30 ms of
\* silence.
C17_Witness ==
  /\ ret.op = "Write" /\ stream.sampleRate = 8000 /\ stream.frameMs = 30
  /\ GetTotalProcessed(stream) = 6 * 480
  /\ GetSegments(stream) =
       << [Start |-> 0, End |-> 60000000, IsSpeech |-> FALSE],
          [Start |-> 60000000, End |-> 150000000, IsSpeech |-> TRUE],
          [Start |-> 150000000, End |-> 180000000, IsSpeech |-> FALSE] >>

\* C18: after a Reset, in whatever state the stream was, no byte is buffered,
\* no byte counts as processed, there is no segment, and Reset returned no
\* error.
C18_ResetClears ==
  ret.op = "Reset" =>
    /\ ret.err = ""
    /\ GetBufferSize(stream) = 0
    /\ GetTotalProcessed(stream) = 0
    /\ GetTotalDuration(stream) = 0
    /\ GetSegments(stream) = << >>
    /\ FilterSpeechSegments(stream) = << >> /\ FilterSilenceSegments(stream) = << >>
    /\ ghost.written = 0

\* A Reset of a stream that had processed frames and had a part of a frame
\* buffered.
C18_Witness ==
  /\ ret.op = "Reset" /\ ret.err = ""
  /\ ghost.before >= 2 /\ ghost.buffered > 0
  /\ frames = MaxWrites
  /\ GetBufferSize(stream) = 0 /\ GetSegments(stream) = << >>

\* C30 as stated: when a Write call returns, every segment it returns has
\* the Start, End and IsSpeech of the entry of GetSegments() that starts where
\* it starts, also when the call held several frames.
C30_ReturnedSegmentsCurrent ==
  (ret.op = "Write" /\ ret.err = "") =>
    \A i \in 1..Len(ghost.returned) :
      \E j \in 1..Len(GetSegments(stream)) :
        /\ GetSegments(stream)[j].Start = ghost.returned[i].Start
        /\ GetSegments(stream)[j] = ghost.returned[i]

(***************************************************************************)
(* The client of a StreamVAD that is reset, next to a second StreamVAD.    *)
(* The stream is created with a mode (kept in ghost.mode), written to and  *)
(* reset; at every Reset a second stream is created with the same mode,    *)
(* sample rate and frame duration (ghost.twin.s), and every Write after    *)
(* that is made on both with the same chunk, ghost.returned and            *)
(* ghost.twin.returned being what the two calls return.                    *)
(***************************************************************************)
MaxTwinWrites == 3

TwinMenu == { << 0, 8000, 30 >>, << 3, 8000, 30 >>, << 2, 16000, 10 >> }

\* Chunks of one frame: silence, a quiet tone and a loud one.
TwinChunks ==
  { Frame(0, stream.frameSize, 0, 1), Frame(0, stream.frameSize, 100, 4),
    Frame(0, stream.frameSize, 1000, 4) }

InitTwin ==
  /\ inst = createVadInst
  /\ created = FALSE
  /\ ret = NoCall
  /\ env = "twin"
  /\ frames = 0
  /\ zeroRate = 0
  /\ stream = NoStream
  /\ ghost = NoGhost

\* s, err := NewStreamVAD(mode, sampleRate, frameMs)
CallNewStreamVADTwin(mode, sampleRate, frameMs) ==
  /\ ~created
  /\ LET Return(r) ==
           /\ stream' = r.s
           /\ ret' = [op |-> "NewStreamVAD", arg |-> mode, len |-> frameMs,
                      err |-> r.err, result |-> FALSE]
     IN Return(NewStreamVAD(mode, sampleRate, frameMs))
  /\ created' = TRUE
  /\ ghost' = [ghost EXCEPT !.mode = mode]
  /\ UNCHANGED << inst, env, frames, zeroRate >>

\* segments, err := s.Write(data), and the same on the second stream
CallWriteTwin(d) ==
  /\ created
  /\ frames < MaxTwinWrites
  /\ LET Return(r, t) ==
           /\ stream' = r.s
           /\ ret' = [op |-> "Write", arg |-> d.amp, len |-> d.bytes,
                      err |-> r.err, result |-> FALSE]
           /\ ghost' = [ghost EXCEPT
                          !.returned = r.segments, !.chunk = d,
                          !.twin = [s |-> t.s, returned |-> t.segments]]
     IN Return(Write(stream, FrameBytes(d)),
               IF ghost.twin.s.frameSize = 0
               THEN [s |-> ghost.twin.s, segments |-> ghost.twin.returned]
               ELSE Write(ghost.twin.s, FrameBytes(d)))
  /\ frames' = frames + 1
  /\ UNCHANGED << inst, created, env, zeroRate >>

\* err := s.Reset(); t, _ := NewStreamVAD(mode, sampleRate, frameMs)
CallResetTwin ==
  /\ created
  /\ ret.op # "Reset"
  /\ LET Return(r) ==
           /\ stream' = r.s
           /\ ret' = [op |-> "Reset", arg |-> 0, len |-> 0, err |-> r.err,
                      result |-> FALSE]
     IN Return(Reset(stream))
  /\ ghost' = [ghost EXCEPT
                 !.returned = << >>,
                 !.twin = [s |-> NewStreamVAD(ghost.mode, stream.sampleRate,
                                              stream.frameMs).s,
                           returned |-> << >>]]
  /\ UNCHANGED << inst, created, env, frames, zeroRate >>

NextTwin ==
  \/ \E a \in TwinMenu : CallNewStreamVADTwin(a[1], a[2], a[3])
  \/ \E d \in TwinChunks : CallWriteTwin(d)
  \/ CallResetTwin

SpecTwin == InitTwin /\ [][NextTwin]_vars

\* C28 as stated: after Reset the stream returns, for every sequence of Write
\* calls, the segments that a stream newly created with the same mode, sample
\* rate and frame duration returns for it, the mode of the construction being
\* still in force.
C28_ResetKeepsMode ==
  (ret.op = "Write" /\ ghost.twin.s.frameSize # 0) =>
    /\ ghost.returned = ghost.twin.returned
    /\ GetSegments(stream) = GetSegments(ghost.twin.s)

====
